---- MODULE Spec2Model ----
(***************************************************************************)
(* Architect 3D Home Modeler: the rendering lifecycle and gallery of the   *)
(* two revisions of the Flask application.                                 *)
(*   rev = "app"  : src/app.py (gallery per user, OpenAI generator)        *)
(*   rev = "proj" : src/architect_3_d_home_modeler_flask_app_app.py        *)
(*                  (project-based revision, placeholder generator)        *)
(* Program strings that the code inspects character by character are       *)
(* sequences of one-character strings.                                     *)
(***************************************************************************)
EXTENDS Integers, Sequences, FiniteSets, TLC

VARIABLES
    rev,         \* which revision is deployed
    users,       \* table users
    projects,    \* table projects (project-based revision)
    renderings,  \* table renderings
    files,       \* artifacts present under static/renderings
    session,     \* the browser session (Flask session cookie)
    nextUserId,  \* AUTOINCREMENT of users
    nextProjectId, \* AUTOINCREMENT of projects
    nextId,      \* AUTOINCREMENT of renderings
    nextUuid,    \* the next value uuid.uuid4() returns
    clock,       \* datetime.utcnow()
    last,        \* the last request and its response
    bp,          \* one call of build_prompt: its arguments and its result
    inflight,    \* requests served concurrently: where each one stands
    config       \* app.config flags and what the initialization has created

vars == <<rev, users, projects, renderings, files, session, nextUserId,
          nextProjectId, nextId, nextUuid, clock, last, bp, inflight, config>>

-----------------------------------------------------------------------------
(* Bounds of the model *)

\* longest free-text description drawn for a call of build_prompt
MaxLen == 4
\* artifacts the generator may write (cap on uuid4 draws)
MaxUuid == 2
\* requests of the project-based revision that write artifacts (cap on the clock)
MaxClock == 2
\* projects a request may name
MaxProjects == 1

-----------------------------------------------------------------------------
(* Strings *)

UpperAlpha == <<"A","B","C","D","E","F","G","H","I","J","K","L","M","N","O","P","Q","R","S","T","U","V","W","X","Y","Z">>
LowerAlpha == <<"a","b","c","d","e","f","g","h","i","j","k","l","m","n","o","p","q","r","s","t","u","v","w","x","y","z">>

\* str.lower() on one character
LowerChar(c) ==
    IF \E i \in 1..26 : UpperAlpha[i] = c
    THEN LowerAlpha[CHOOSE i \in 1..26 : UpperAlpha[i] = c]
    ELSE c

\* str.lower()
Lower(s) == [i \in 1..Len(s) |-> LowerChar(s[i])]

\* sub in s
Contains(s, sub) ==
    \E i \in 1..(Len(s) - Len(sub) + 1) : SubSeq(s, i, i + Len(sub) - 1) = sub

StartsWith(s, sub) == Len(s) >= Len(sub) /\ SubSeq(s, 1, Len(sub)) = sub

\* str.replace(old, new): leftmost non-overlapping occurrences, one pass
RECURSIVE Replace(_, _, _)
Replace(s, old, new) ==
    IF s = <<>> THEN <<>>
    ELSE IF StartsWith(s, old)
         THEN new \o Replace(SubSeq(s, Len(old) + 1, Len(s)), old, new)
         ELSE <<Head(s)>> \o Replace(Tail(s), old, new)

IsSpace(c) == c = " "

\* str.strip()
RECURSIVE LStrip(_)
LStrip(s) == IF s # <<>> /\ IsSpace(Head(s)) THEN LStrip(Tail(s)) ELSE s

RECURSIVE RStrip(_)
RStrip(s) ==
    IF s # <<>> /\ IsSpace(s[Len(s)]) THEN RStrip(SubSeq(s, 1, Len(s) - 1)) ELSE s

Strip(s) == RStrip(LStrip(s))

\* str.split(sep): the pieces between leftmost non-overlapping separators
RECURSIVE SplitAcc(_, _, _)
SplitAcc(s, sep, cur) ==
    IF s = <<>> THEN <<cur>>
    ELSE IF StartsWith(s, sep)
         THEN <<cur>> \o SplitAcc(SubSeq(s, Len(sep) + 1, Len(s)), sep, <<>>)
         ELSE SplitAcc(Tail(s), sep, cur \o <<Head(s)>>)

Split(s, sep) == SplitAcc(s, sep, <<>>)

\* sep.join(parts)
RECURSIVE Join(_, _)
Join(parts, sep) ==
    IF parts = <<>> THEN <<>>
    ELSE IF Len(parts) = 1 THEN parts[1]
         ELSE parts[1] \o sep \o Join(Tail(parts), sep)

\* a value a form field or a dict lookup may lack (Python None)
Absent == [some |-> FALSE, val |-> <<>>]
Some(s) == [some |-> TRUE, val |-> s]
\* Python truthiness of an optional string
Truthy(v) == v.some /\ v.val # <<>>

S_pool == <<"p","o","o","l">>
S_None == <<"N","o","n","e">>
S_Sep == <<","," ">>
S_Colon == <<":"," ">>
S_PlanHint == <<"C","o","n","s","i","d","e","r"," ","t","h","e"," ","u","p","l","o","a","d","e","d"," ","a","r","c","h","i","t","e","c","t","u","r","a","l"," ","p","l","a","n"," ","a","s"," ","a"," ","g","u","i","d","e","."," ">>
S_Head == <<"H","i","g","h","-","q","u","a","l","i","t","y"," ","p","h","o","t","o","r","e","a","l","i","s","t","i","c"," ">>
S_Head2 == <<" ","r","e","n","d","e","r","i","n","g"," ","f","o","r"," ","a"," ","r","e","s","i","d","e","n","t","i","a","l"," ","h","o","m","e","."," ">>
S_Intent == <<"D","e","s","i","g","n"," ","i","n","t","e","n","t",":"," ">>
S_IntentFallback == <<"C","l","i","e","n","t"," ","u","n","s","p","e","c","i","f","i","e","d"," ","s","t","y","l","e",";"," ","p","i","c","k"," ","t","a","s","t","e","f","u","l"," ","c","o","n","t","e","m","p","o","r","a","r","y",".">>
S_Apply == <<" ","A","p","p","l","y"," ","c","h","o","i","c","e","s"," ","-",">"," ">>
\* the source writes the apostrophe as U+2019
S_SelFallback == <<"d","e","s","i","g","n","e","r","'","s"," ","c","h","o","i","c","e"," ","w","i","t","h"," ","c","o","h","e","s","i","v","e"," ","s","t","y","l","e">>
S_Tail == <<"."," ","B","a","l","a","n","c","e","d"," ","c","o","m","p","o","s","i","t","i","o","n",","," ","r","e","a","l","i","s","t","i","c"," ","l","i","g","h","t","i","n","g",","," ","4","k"," ","d","e","t","a","i","l",","," ","m","a","g","a","z","i","n","e"," ","q","u","a","l","i","t","y",".">>

-----------------------------------------------------------------------------
(* Option catalog and prompt builder of src/app.py *)

FrontExterior == <<"F","r","o","n","t"," ","E","x","t","e","r","i","o","r">>
BackExterior == <<"B","a","c","k"," ","E","x","t","e","r","i","o","r">>
Kitchen == <<"K","i","t","c","h","e","n">>
LivingRoom == <<"L","i","v","i","n","g"," ","R","o","o","m">>

K_Siding == <<"S","i","d","i","n","g"," ","M","a","t","e","r","i","a","l">>
K_Vehicle == <<"V","e","h","i","c","l","e">>
K_SwimmingPool == <<"S","w","i","m","m","i","n","g"," ","P","o","o","l">>
K_Countertops == <<"C","o","u","n","t","e","r","t","o","p","s">>
K_Backsplash == <<"B","a","c","k","s","p","l","a","s","h">>
K_Fireplace == <<"F","i","r","e","p","l","a","c","e">>

\* the option names of OPTIONS[subcategory], in their order (two per catalog
\* entry are kept); <<>> for a subcategory that is no key of OPTIONS
OptionNames(subcategory) ==
    IF subcategory = Some(FrontExterior) THEN <<K_Siding, K_Vehicle>>
    ELSE IF subcategory = Some(BackExterior) THEN <<K_Siding, K_SwimmingPool>>
    ELSE IF subcategory = Some(Kitchen) THEN <<K_Countertops, K_Backsplash>>
    ELSE <<>>

InOptions(subcategory) ==
    subcategory \in {Some(FrontExterior), Some(BackExterior), Some(Kitchen)}

\* f"{x}" of an optional string
Fmt(v) == IF v.some THEN v.val ELSE S_None

\* KeepOption without v != "None"
KeepNonEmpty(kv) == Truthy(kv[2])

\* f"{k}: {v}" for the pairs of options_map with v truthy and v != "None"
KeepOption(kv) == Truthy(kv[2]) /\ kv[2].val # S_None
FmtOption(kv) == kv[1] \o S_Colon \o kv[2].val
Selections(options_map) ==
    LET kept == SelectSeq(options_map, KeepOption)
    IN  Join([i \in 1..Len(kept) |-> FmtOption(kept[i])], S_Sep)

NoPool(s) == ~Contains(Lower(s), S_pool)

\* line 330-331: the description with the pool references taken out
StripPool(subcategory, description) ==
    IF subcategory = Some(FrontExterior) /\ Contains(Lower(description), S_pool)
    THEN Replace(description, S_pool, <<>>)
    ELSE description

\* line 332-333: the selections without the entries that mention a pool
FrontSelections(subcategory, selections) ==
    IF subcategory = Some(FrontExterior)
    THEN Join(SelectSeq(Split(selections, S_Sep), NoPool), S_Sep)
    ELSE selections

\* OrElse without the fallback
OrElse_NoFallback(s, fallback) == s

\* s or fallback on strings
OrElse(s, fallback) == IF s # <<>> THEN s ELSE fallback

build_prompt(subcategory, options_map, description, plan_uploaded) ==
    LET selections == FrontSelections(subcategory, Selections(options_map))
        plan_hint == IF plan_uploaded THEN S_PlanHint ELSE <<>>
        desc == StripPool(subcategory, description)
    IN  S_Head \o Fmt(subcategory) \o S_Head2
        \o plan_hint
        \o S_Intent \o OrElse(Strip(desc), S_IntentFallback)
        \o S_Apply \o OrElse(selections, S_SelFallback)
        \o S_Tail

-----------------------------------------------------------------------------
(* Shared pieces of the two revisions *)

NoUser == 0
\* no request is being served
NoRequests == <<>>
\* app.config and the disk after init_fs_once and init_db_once have run
Initialized ==
    [FS_INITIALIZED |-> TRUE, DB_INITIALIZED |-> TRUE, dirs |-> TRUE,
     scaffold |-> "written", tables |-> {"users", "renderings"}]
IsApp == rev = "app"
IsProj == rev = "proj"

\* an empty Flask session
NoSession == [user_id |-> NoUser, user_email |-> Absent, username |-> Absent]

\* werkzeug.security: a hash is opaque and matches the password it was made of
generate_password_hash(password) == <<"hash", password>>
check_password_hash(pwhash, password) == pwhash = generate_password_hash(password)

\* json.dumps / json.loads of an option mapping (None <-> null)
JsonDumps(m) ==
    [i \in 1..Len(m) |->
        <<m[i][1], IF m[i][2].some THEN [null |-> FALSE, str |-> m[i][2].val]
                                   ELSE [null |-> TRUE, str |-> <<>>]>>]
JsonLoads(j) ==
    [i \in 1..Len(j) |-> <<j[i][1], IF j[i][2].null THEN Absent ELSE Some(j[i][2].str)>>]

\* dict.get(key): the value stored under key, None when there is none
Get(m, key) ==
    IF \E i \in 1..Len(m) : m[i][1] = key
    THEN m[CHOOSE i \in 1..Len(m) : m[i][1] = key][2]
    ELSE Absent

\* a or b on optional strings
Or(a, b) == IF Truthy(a) THEN a ELSE b

\* what a request leaves behind for the client: the response and what the
\* handler did on the way (generator calls, mail sent, listing shown)
Resp(op, status, msg) ==
    [op |-> op, user |-> session.user_id, status |-> status, msg |-> msg,
     action |-> "", ids |-> {}, target |-> 0, room_key |-> "", n |-> 0, gen |-> 0,
     sent |-> {}, urls |-> {}, items |-> {}, show |-> FALSE, rooms |-> {}]

-----------------------------------------------------------------------------
(* src/app.py: state *)

BASIC_ROOMS ==
    {"Living Room", "Kitchen", "Home Office", "Primary Bedroom",
     "Primary Bathroom", "Other Bedroom", "Half Bath", "Family Room"}
BASEMENT_ROOMS ==
    {"Basement: Game Room", "Basement: Gym", "Basement: Theater Room",
     "Basement: Hallway"}

S_basement == <<"b","a","s","e","m","e","n","t">>
detect_basement(description) == Contains(Lower(description), S_basement)
build_room_list(description) ==
    IF detect_basement(description) THEN BASIC_ROOMS \cup BASEMENT_ROOMS
    ELSE BASIC_ROOMS

\* save_image_bytes: the relative path of a new artifact
save_image_bytes(uid) == <<"renderings", uid>>

\* InsertRendering with liked = 1 instead of the column default
InsertRendering_Liked(id, user_id, category, subcategory, selected, prompt, rel_path, now) ==
    [id |-> id, user_id |-> user_id, category |-> category,
     subcategory |-> subcategory, options_json |-> JsonDumps(selected),
     prompt |-> prompt, image_path |-> rel_path, liked |-> 1, favorited |-> 0,
     created_at |-> now]

\* INSERT INTO renderings (...): liked and favorited take their DEFAULT 0
InsertRendering(id, user_id, category, subcategory, selected, prompt, rel_path, now) ==
    [id |-> id, user_id |-> user_id, category |-> category,
     subcategory |-> subcategory, options_json |-> JsonDumps(selected),
     prompt |-> prompt, image_path |-> rel_path, liked |-> 0, favorited |-> 0,
     created_at |-> now]

\* the rows a handler of src/app.py may touch: ... AND user_id = ?
Owned(user_id) == {r \in renderings : r.user_id = user_id}
Selected(ids, user_id) == {r \in Owned(user_id) : r.id \in ids}

\* login_required: the wrapped handler runs only with user_id in the session
LoggedIn == session.user_id # NoUser
LoginRedirect(op) ==
    /\ last' = Resp(op, 302, "Please log in to continue.")
    /\ UNCHANGED <<rev, users, projects, renderings, files, session, nextUserId,
                   nextProjectId, nextId, nextUuid, clock, bp, inflight, config>>

-----------------------------------------------------------------------------
(* Inputs the requests are drawn from *)

D_Basement == <<"B","a","s","e","m","e","n","t">>
Descriptions == {D_Basement}
PlanFlags == {FALSE}

V_Quartz == <<"Q","u","a","r","t","z">>
Garage == <<"G","a","r","a","g","e">>
\* the values a form gives to the option names of a subcategory, in order
Forms == {<<Some(V_Quartz), Some(S_None)>>}
ModifyForms == {<<Absent, Some(V_Quartz)>>}
RoomDescriptions == {<<>>}
SubcategoryInputs == {Some(Kitchen), Some(Garage), Absent}

EmailInputs == {<<"A"," ">>, <<"b">>}
\* the name every registration form gives
UserName == <<"n">>
RegisterPasswords == {"pw", ""}
LoginPasswords == {"pw", "bad"}
ToEmails == {"", "friend@example.com"}
Actions == {"delete", "like", "favorite", "download", "email"}

\* the ids a client may name: every id the table can come to hold
Ids == 1..MaxUuid
NoIds == [given |-> FALSE, ids |-> {}]
ProjDescriptions == {<<>>, D_Basement}
ProjectInputs == 1..MaxProjects
BulkRoomKeys == {"back_exterior"}
IdInputs == {NoIds} \cup {[given |-> TRUE, ids |-> S] : S \in SUBSET Ids}

-----------------------------------------------------------------------------
(* src/app.py: handlers *)

UnchangedProj == UNCHANGED <<rev, projects, nextProjectId, bp, inflight, config>>

\* selected[opt_name] = request.form.get(opt_name) for the names of OPTIONS
FormSelected(subcategory, form) ==
    LET names == OptionNames(subcategory)
    IN  [i \in 1..Len(names) |-> <<names[i], form[i]>>]

\* POST /register
register(email_in, password) ==
    LET email == Lower(Strip(email_in)) IN
    /\ IsApp
    /\ IF email = <<>> \/ password = ""
       THEN /\ last' = Resp("register", 302, "Email and password are required.")
            /\ UNCHANGED <<users, nextUserId, session>>
       ELSE IF \E u \in users : u.email = email
       THEN /\ last' = Resp("register", 302, "Email already registered.")
            /\ UNCHANGED <<users, nextUserId, session>>
       ELSE /\ users' = users \cup
                 {[id |-> nextUserId, email |-> email, name |-> UserName,
                   password_hash |-> generate_password_hash(password)]}
            /\ nextUserId' = nextUserId + 1
            /\ session' = [session EXCEPT !.user_id = nextUserId,
                                          !.user_email = Some(email)]
            /\ last' = Resp("register", 302, "Welcome! Account created.")
    /\ UNCHANGED <<renderings, files, nextId, nextUuid, clock>>
    /\ UnchangedProj

\* login accepting any password for a registered email
login_AnyPassword(email_in, password) ==
    LET email == Lower(Strip(email_in))
        found == {u \in users : u.email = email}
    IN
    /\ IsApp
    /\ IF found # {}
       THEN LET user == CHOOSE u \in found : TRUE IN
            /\ session' = [session EXCEPT !.user_id = user.id,
                                          !.user_email = Some(user.email)]
            /\ last' = Resp("login", 302, "Logged in successfully.")
       ELSE /\ last' = Resp("login", 302, "Invalid credentials.")
            /\ UNCHANGED session
    /\ UNCHANGED <<users, nextUserId, renderings, files, nextId, nextUuid, clock>>
    /\ UnchangedProj

\* POST /login
login(email_in, password) ==
    LET email == Lower(Strip(email_in))
        found == {u \in users : u.email = email}
    IN
    /\ IsApp
    /\ IF \E u \in found : check_password_hash(u.password_hash, password)
       THEN LET user == CHOOSE u \in found : TRUE IN
            /\ session' = [session EXCEPT !.user_id = user.id,
                                          !.user_email = Some(user.email)]
            /\ last' = Resp("login", 302, "Logged in successfully.")
       ELSE /\ last' = Resp("login", 302, "Invalid credentials.")
            /\ UNCHANGED session
    /\ UNCHANGED <<users, nextUserId, renderings, files, nextId, nextUuid, clock>>
    /\ UnchangedProj

\* GET /logout
logout ==
    /\ IsApp
    /\ session' = NoSession
    /\ last' = Resp("logout", 302, "Logged out.")
    /\ UNCHANGED <<users, nextUserId, renderings, files, nextId, nextUuid, clock>>
    /\ UnchangedProj

\* generate inserting each row as soon as its image is generated
generate_InsertEach(description_in, plan_uploaded, frontOk, backOk) ==
    LET description == Strip(description_in)
        front_prompt == build_prompt(Some(FrontExterior), <<>>, description, plan_uploaded)
        back_prompt == build_prompt(Some(BackExterior), <<>>, description, plan_uploaded)
        front_path == save_image_bytes(nextUuid)
        back_path == save_image_bytes(nextUuid + 1)
        user_id == session.user_id
    IN
    /\ IsApp
    /\ nextUuid + 1 <= MaxUuid
    /\ IF ~LoggedIn THEN LoginRedirect("generate")
       ELSE /\ IF ~frontOk
               THEN /\ last' = [Resp("generate", 302, "OpenAI image generation failed")
                                  EXCEPT !.gen = 1]
                    /\ UNCHANGED <<renderings, files, nextId, nextUuid, clock>>
               ELSE IF ~backOk
               THEN /\ files' = files \cup {front_path}
                    /\ nextUuid' = nextUuid + 1
                    /\ renderings' = renderings \cup
                         {InsertRendering(nextId, user_id, "EXTERIOR", FrontExterior,
                                          <<>>, front_prompt, front_path, clock)}
                    /\ nextId' = nextId + 1
                    /\ clock' = clock + 1
                    /\ last' = [Resp("generate", 302, "OpenAI image generation failed")
                                  EXCEPT !.gen = 2]
               ELSE /\ files' = files \cup {front_path, back_path}
                    /\ nextUuid' = nextUuid + 2
                    /\ renderings' = renderings \cup
                         {InsertRendering(nextId, user_id, "EXTERIOR", FrontExterior,
                                          <<>>, front_prompt, front_path, clock),
                          InsertRendering(nextId + 1, user_id, "EXTERIOR", BackExterior,
                                          <<>>, back_prompt, back_path, clock)}
                    /\ nextId' = nextId + 2
                    /\ clock' = clock + 1
                    /\ last' = [Resp("generate", 302,
                                     "Generated Front & Back exterior renderings!")
                                  EXCEPT !.gen = 2]
            /\ UNCHANGED <<users, nextUserId, session>>
            /\ UnchangedProj

\* POST /generate: the two exterior renderings. frontOk and backOk are the
\* outcomes of the two calls of generate_image_via_openai.
generate(description_in, plan_uploaded, frontOk, backOk) ==
    LET description == Strip(description_in)
        front_prompt == build_prompt(Some(FrontExterior), <<>>, description, plan_uploaded)
        back_prompt == build_prompt(Some(BackExterior), <<>>, description, plan_uploaded)
        front_path == save_image_bytes(nextUuid)
        back_path == save_image_bytes(nextUuid + 1)
        user_id == session.user_id
    IN
    /\ IsApp
    /\ nextUuid + 1 <= MaxUuid
    /\ IF ~LoggedIn THEN LoginRedirect("generate")
       ELSE /\ IF ~frontOk
               THEN /\ last' = [Resp("generate", 302, "OpenAI image generation failed")
                                  EXCEPT !.gen = 1]
                    /\ UNCHANGED <<renderings, files, nextId, nextUuid, clock>>
               ELSE IF ~backOk
               THEN /\ files' = files \cup {front_path}
                    /\ nextUuid' = nextUuid + 1
                    /\ last' = [Resp("generate", 302, "OpenAI image generation failed")
                                  EXCEPT !.gen = 2]
                    /\ UNCHANGED <<renderings, nextId, clock>>
               ELSE /\ files' = files \cup {front_path, back_path}
                    /\ nextUuid' = nextUuid + 2
                    /\ renderings' = renderings \cup
                         {InsertRendering(nextId, user_id, "EXTERIOR", FrontExterior,
                                          <<>>, front_prompt, front_path, clock),
                          InsertRendering(nextId + 1, user_id, "EXTERIOR", BackExterior,
                                          <<>>, back_prompt, back_path, clock)}
                    /\ nextId' = nextId + 2
                    /\ clock' = clock + 1
                    /\ last' = [Resp("generate", 302,
                                     "Generated Front & Back exterior renderings!")
                                  EXCEPT !.gen = 2]
            /\ UNCHANGED <<users, nextUserId, session>>
            /\ UnchangedProj

\* generate_room inserting the row before the generator is called
generate_room_InsertFirst(subcategory, description, plan_uploaded, form, genOk) ==
    LET selected == FormSelected(subcategory, form)
        prompt == build_prompt(subcategory, selected, description, plan_uploaded)
        rel_path == save_image_bytes(nextUuid)
    IN
    /\ IsApp
    /\ nextUuid <= MaxUuid
    /\ IF ~LoggedIn THEN LoginRedirect("generate_room")
       ELSE /\ IF ~genOk
               THEN /\ renderings' = renderings \cup
                         {InsertRendering(nextId, session.user_id, "ROOM",
                                          Fmt(subcategory), selected, prompt, rel_path, clock)}
                    /\ nextId' = nextId + 1
                    /\ last' = [Resp("generate_room", 500, "OpenAI image generation failed")
                                  EXCEPT !.gen = 1]
                    /\ UNCHANGED <<files, nextUuid, clock>>
               ELSE IF ~subcategory.some
               THEN /\ files' = files \cup {rel_path}
                    /\ nextUuid' = nextUuid + 1
                    /\ last' = [Resp("generate_room", 500, "IntegrityError")
                                  EXCEPT !.gen = 1]
                    /\ UNCHANGED <<renderings, nextId, clock>>
               ELSE /\ files' = files \cup {rel_path}
                    /\ nextUuid' = nextUuid + 1
                    /\ renderings' = renderings \cup
                         {InsertRendering(nextId, session.user_id, "ROOM", subcategory.val,
                                          selected, prompt, rel_path, clock)}
                    /\ nextId' = nextId + 1
                    /\ clock' = clock + 1
                    /\ last' = [Resp("generate_room", 200, "Generated rendering!")
                                  EXCEPT !.gen = 1, !.target = nextId]
            /\ UNCHANGED <<users, nextUserId, session>>
            /\ UnchangedProj

\* POST /generate_room. A row whose subcategory is NULL violates NOT NULL:
\* the INSERT raises and nothing is committed.
generate_room(subcategory, description, plan_uploaded, form, genOk) ==
    LET selected == FormSelected(subcategory, form)
        prompt == build_prompt(subcategory, selected, description, plan_uploaded)
        rel_path == save_image_bytes(nextUuid)
    IN
    /\ IsApp
    /\ nextUuid <= MaxUuid
    /\ IF ~LoggedIn THEN LoginRedirect("generate_room")
       ELSE /\ IF ~genOk
               THEN /\ last' = [Resp("generate_room", 500, "OpenAI image generation failed")
                                  EXCEPT !.gen = 1]
                    /\ UNCHANGED <<renderings, files, nextId, nextUuid, clock>>
               ELSE IF ~subcategory.some
               THEN /\ files' = files \cup {rel_path}
                    /\ nextUuid' = nextUuid + 1
                    /\ last' = [Resp("generate_room", 500, "IntegrityError")
                                  EXCEPT !.gen = 1]
                    /\ UNCHANGED <<renderings, nextId, clock>>
               ELSE /\ files' = files \cup {rel_path}
                    /\ nextUuid' = nextUuid + 1
                    /\ renderings' = renderings \cup
                         {InsertRendering(nextId, session.user_id, "ROOM", subcategory.val,
                                          selected, prompt, rel_path, clock)}
                    /\ nextId' = nextId + 1
                    /\ clock' = clock + 1
                    /\ last' = [Resp("generate_room", 200, "Generated rendering!")
                                  EXCEPT !.gen = 1, !.target = nextId]
            /\ UNCHANGED <<users, nextUserId, session>>
            /\ UnchangedProj

\* FindRendering without "AND user_id = ?"
FindRenderingAnyUser(rid, user_id) ==
    {r \in renderings : r.id = rid}

\* SELECT * FROM renderings WHERE id = ? AND user_id = ?
FindRendering(rid, user_id) ==
    {r \in renderings : r.id = rid /\ r.user_id = user_id}

\* modify_rendering writing the new options, prompt and image into the row
\* it read (UPDATE) instead of inserting a row
modify_rendering_InPlace(rid, description, form, genOk) ==
    LET found == FindRendering(rid, session.user_id) IN
    /\ IsApp
    /\ nextUuid <= MaxUuid
    /\ IF ~LoggedIn THEN LoginRedirect("modify_rendering")
       ELSE /\ IF found = {}
               THEN /\ last' = [Resp("modify_rendering", 404, "Rendering not found.")
                                  EXCEPT !.target = rid]
                    /\ UNCHANGED <<renderings, files, nextId, nextUuid, clock>>
               ELSE LET row == CHOOSE r \in found : TRUE
                        subcategory == Some(row.subcategory)
                        original_options == JsonLoads(row.options_json)
                        names == OptionNames(subcategory)
                        selected ==
                            [i \in 1..Len(names) |->
                                <<names[i], Or(form[i], Get(original_options, names[i]))>>]
                        prompt == build_prompt(subcategory, selected, description, FALSE)
                        rel_path == save_image_bytes(nextUuid)
                    IN  IF ~genOk
                        THEN /\ last' = [Resp("modify_rendering", 500, "Modification failed")
                                           EXCEPT !.gen = 1, !.target = rid]
                             /\ UNCHANGED <<renderings, files, nextId, nextUuid, clock>>
                        ELSE /\ files' = files \cup {rel_path}
                             /\ nextUuid' = nextUuid + 1
                             /\ renderings' = (renderings \ {row}) \cup
                                  {[row EXCEPT !.options_json = JsonDumps(selected),
                                               !.prompt = prompt,
                                               !.image_path = rel_path]}
                             /\ UNCHANGED nextId
                             /\ clock' = clock + 1
                             /\ last' = [Resp("modify_rendering", 200, "Modified rendering!")
                                           EXCEPT !.gen = 1, !.target = rid]
            /\ UNCHANGED <<users, nextUserId, session>>
            /\ UnchangedProj

\* POST /modify_rendering/<rid>
modify_rendering(rid, description, form, genOk) ==
    LET found == FindRendering(rid, session.user_id) IN
    /\ IsApp
    /\ nextUuid <= MaxUuid
    /\ IF ~LoggedIn THEN LoginRedirect("modify_rendering")
       ELSE /\ IF found = {}
               THEN /\ last' = [Resp("modify_rendering", 404, "Rendering not found.")
                                  EXCEPT !.target = rid]
                    /\ UNCHANGED <<renderings, files, nextId, nextUuid, clock>>
               ELSE LET row == CHOOSE r \in found : TRUE
                        subcategory == Some(row.subcategory)
                        original_options == JsonLoads(row.options_json)
                        names == OptionNames(subcategory)
                        selected ==
                            [i \in 1..Len(names) |->
                                <<names[i], Or(form[i], Get(original_options, names[i]))>>]
                        prompt == build_prompt(subcategory, selected, description, FALSE)
                        rel_path == save_image_bytes(nextUuid)
                    IN  IF ~genOk
                        THEN /\ last' = [Resp("modify_rendering", 500, "Modification failed")
                                           EXCEPT !.gen = 1, !.target = rid]
                             /\ UNCHANGED <<renderings, files, nextId, nextUuid, clock>>
                        ELSE /\ files' = files \cup {rel_path}
                             /\ nextUuid' = nextUuid + 1
                             /\ renderings' = renderings \cup
                                  {InsertRendering(nextId, row.user_id, row.category,
                                                   row.subcategory, selected, prompt,
                                                   rel_path, clock)}
                             /\ nextId' = nextId + 1
                             /\ clock' = clock + 1
                             /\ last' = [Resp("modify_rendering", 200, "Modified rendering!")
                                           EXCEPT !.gen = 1, !.target = rid]
            /\ UNCHANGED <<users, nextUserId, session>>
            /\ UnchangedProj

\* GET /gallery
gallery ==
    /\ IsApp
    /\ IF ~LoggedIn THEN LoginRedirect("gallery")
       ELSE LET items == Owned(session.user_id)
                fav_count == Cardinality({r \in items : r.favorited # 0})
            IN  /\ last' = [Resp("gallery", 200, "gallery.html")
                              EXCEPT !.items = {r.id : r \in items},
                                     !.show = (fav_count >= 2),
                                     !.rooms = build_room_list(<<>>)]
                /\ UNCHANGED <<users, nextUserId, session, renderings, files,
                               nextId, nextUuid, clock>>
                /\ UnchangedProj

\* slideshow redirecting only when there is no favorite at all
slideshow_AtLeastOne ==
    /\ IsApp
    /\ IF ~LoggedIn THEN LoginRedirect("slideshow")
       ELSE LET items == {r \in renderings :
                            r.favorited = 1 /\ r.user_id = session.user_id}
            IN  /\ IF Cardinality(items) < 1
                   THEN last' = Resp("slideshow", 302,
                                     "Favorite at least two renderings to start a slideshow.")
                   ELSE last' = [Resp("slideshow", 200, "slideshow.html")
                                   EXCEPT !.items = {r.id : r \in items}]
                /\ UNCHANGED <<users, nextUserId, session, renderings, files,
                               nextId, nextUuid, clock>>
                /\ UnchangedProj

\* GET /slideshow
slideshow ==
    /\ IsApp
    /\ IF ~LoggedIn THEN LoginRedirect("slideshow")
       ELSE LET items == {r \in renderings :
                            r.favorited = 1 /\ r.user_id = session.user_id}
            IN  /\ IF Cardinality(items) < 2
                   THEN last' = Resp("slideshow", 302,
                                     "Favorite at least two renderings to start a slideshow.")
                   ELSE last' = [Resp("slideshow", 200, "slideshow.html")
                                   EXCEPT !.items = {r.id : r \in items}]
                /\ UNCHANGED <<users, nextUserId, session, renderings, files,
                               nextId, nextUuid, clock>>
                /\ UnchangedProj

\* DeleteRows without "AND user_id = ?"
DeleteRowsAnyUser(ids, user_id) ==
    {r \in renderings : r.id \notin ids}

\* the delete branch: the rows DELETE ... WHERE id IN (ids) AND user_id = ? leaves
DeleteRows(ids, user_id) ==
    {r \in renderings : ~(r.id \in ids /\ r.user_id = user_id)}

\* ToggleRows writing 1 instead of 1 - value
SetRows(field, ids, user_id) ==
    {IF r \in Selected(ids, user_id)
     THEN (IF field = "liked" THEN [r EXCEPT !.liked = 1] ELSE [r EXCEPT !.favorited = 1])
     ELSE r : r \in renderings}

\* ToggleRows whose UPDATE also rewrites created_at of the rows it toggles
ToggleRows_Stamp(field, ids, user_id) ==
    LET rows == Selected(ids, user_id)
    IN  {IF r \in rows
         THEN (IF field = "liked"
               THEN [r EXCEPT !.liked = 1 - r.liked, !.created_at = r.created_at + 1]
               ELSE [r EXCEPT !.favorited = 1 - r.favorited, !.created_at = r.created_at + 1])
         ELSE r : r \in renderings}

\* ToggleRows computing one new value, from the first row the SELECT
\* returned, for all of them
ToggleRows_Uniform(field, ids, user_id) ==
    LET rows == Selected(ids, user_id)
        first == CHOOSE r \in rows : \A x \in rows : r.id <= x.id
        new_val == 1 - (IF field = "liked" THEN first.liked ELSE first.favorited)
    IN  {IF r \in rows
         THEN (IF field = "liked" THEN [r EXCEPT !.liked = new_val]
               ELSE [r EXCEPT !.favorited = new_val])
         ELSE r : r \in renderings}

\* the like/favorite branch: 1 - value for the rows the SELECT returned
ToggleRows(field, ids, user_id) ==
    LET rows == Selected(ids, user_id)
        updates == {<<1 - (IF field = "liked" THEN r.liked ELSE r.favorited), r.id>> : r \in rows}
    IN  {IF \E u \in updates : u[2] = r.id
         THEN LET new_val == (CHOOSE u \in updates : u[2] = r.id)[1]
              IN  IF field = "liked" THEN [r EXCEPT !.liked = new_val]
                  ELSE [r EXCEPT !.favorited = new_val]
         ELSE r : r \in renderings}

\* LikedPaths without "if r['liked']"
SelectedPaths(ids, user_id) ==
    {r.image_path : r \in Selected(ids, user_id)}

\* the email and download branches: the paths of the liked rows selected
LikedPaths(ids, user_id) ==
    {r.image_path : r \in {x \in Selected(ids, user_id) : x.liked # 0}}

\* bulk_action whose delete branch selects the image paths by id alone,
\* without "AND user_id = ?"
bulk_action_UnlinkAnyUser(action, idsIn, to_email) ==
    LET ids == idsIn.ids
        user_id == session.user_id
        base == [Resp("bulk_action", 200, "") EXCEPT !.action = action, !.ids = ids]
    IN
    /\ IsApp
    /\ IF ~LoggedIn THEN LoginRedirect("bulk_action")
       ELSE /\ IF ~idsIn.given
               THEN /\ last' = [base EXCEPT !.status = 400, !.msg = "No renderings selected."]
                    /\ UNCHANGED <<renderings, files>>
               ELSE IF action = "delete"
               THEN LET paths == {r.image_path : r \in {x \in renderings : x.id \in ids}} IN
                    /\ \E failed \in SUBSET (paths \cap files) :
                          files' = files \ (paths \ failed)
                    /\ renderings' = DeleteRows(ids, user_id)
                    /\ last' = [base EXCEPT !.msg = "Deleted rendering(s).",
                                            !.n = Cardinality(ids)]
               ELSE IF action \in {"like", "favorite"}
               THEN LET field == IF action = "like" THEN "liked" ELSE "favorited" IN
                    /\ renderings' = ToggleRows(field, ids, user_id)
                    /\ last' = [base EXCEPT !.msg = "Updated rendering(s).",
                                            !.n = Cardinality(ids)]
                    /\ UNCHANGED files
               ELSE IF action = "email"
               THEN LET send_paths == LikedPaths(ids, user_id) IN
                    /\ IF to_email = ""
                       THEN last' = [base EXCEPT !.status = 400,
                                       !.msg = "Please provide a destination email."]
                       ELSE IF send_paths = {}
                       THEN last' = [base EXCEPT !.status = 400,
                                       !.msg = "Only 'Liked' renderings can be emailed. None of the selected were liked."]
                       ELSE \E mailOk \in BOOLEAN :
                            IF mailOk /\ send_paths \subseteq files
                            THEN last' = [base EXCEPT !.msg = "Emailed rendering(s).",
                                            !.n = Cardinality(send_paths),
                                            !.sent = send_paths]
                            ELSE last' = [base EXCEPT !.status = 500,
                                            !.msg = "Email failed"]
                    /\ UNCHANGED <<renderings, files>>
               ELSE IF action = "download"
               THEN LET liked_paths == LikedPaths(ids, user_id) IN
                    /\ IF liked_paths = {}
                       THEN last' = [base EXCEPT !.status = 400,
                                       !.msg = "Only 'Liked' renderings can be downloaded."]
                       ELSE last' = [base EXCEPT !.msg = "download_urls",
                                       !.urls = {<<"static", p>> : p \in liked_paths}]
                    /\ UNCHANGED <<renderings, files>>
               ELSE /\ last' = [base EXCEPT !.status = 400, !.msg = "Unknown action."]
                    /\ UNCHANGED <<renderings, files>>
            /\ UNCHANGED <<users, nextUserId, session, nextId, nextUuid, clock>>
            /\ UnchangedProj

\* POST /bulk_action. failed: the artifacts whose unlink() raises;
\* mailOk: whether the SMTP transport accepts the message.
bulk_action(action, idsIn, to_email) ==
    LET ids == idsIn.ids
        user_id == session.user_id
        base == [Resp("bulk_action", 200, "") EXCEPT !.action = action, !.ids = ids]
    IN
    /\ IsApp
    /\ IF ~LoggedIn THEN LoginRedirect("bulk_action")
       ELSE /\ IF ~idsIn.given
               THEN /\ last' = [base EXCEPT !.status = 400, !.msg = "No renderings selected."]
                    /\ UNCHANGED <<renderings, files>>
               ELSE IF action = "delete"
               THEN LET paths == {r.image_path : r \in Selected(ids, user_id)} IN
                    /\ \E failed \in SUBSET (paths \cap files) :
                          files' = files \ (paths \ failed)
                    /\ renderings' = DeleteRows(ids, user_id)
                    /\ last' = [base EXCEPT !.msg = "Deleted rendering(s).",
                                            !.n = Cardinality(ids)]
               ELSE IF action \in {"like", "favorite"}
               THEN LET field == IF action = "like" THEN "liked" ELSE "favorited" IN
                    /\ renderings' = ToggleRows(field, ids, user_id)
                    /\ last' = [base EXCEPT !.msg = "Updated rendering(s).",
                                            !.n = Cardinality(ids)]
                    /\ UNCHANGED files
               ELSE IF action = "email"
               THEN LET send_paths == LikedPaths(ids, user_id) IN
                    /\ IF to_email = ""
                       THEN last' = [base EXCEPT !.status = 400,
                                       !.msg = "Please provide a destination email."]
                       ELSE IF send_paths = {}
                       THEN last' = [base EXCEPT !.status = 400,
                                       !.msg = "Only 'Liked' renderings can be emailed. None of the selected were liked."]
                       ELSE \E mailOk \in BOOLEAN :
                            IF mailOk /\ send_paths \subseteq files
                            THEN last' = [base EXCEPT !.msg = "Emailed rendering(s).",
                                            !.n = Cardinality(send_paths),
                                            !.sent = send_paths]
                            ELSE last' = [base EXCEPT !.status = 500,
                                            !.msg = "Email failed"]
                    /\ UNCHANGED <<renderings, files>>
               ELSE IF action = "download"
               THEN LET liked_paths == LikedPaths(ids, user_id) IN
                    /\ IF liked_paths = {}
                       THEN last' = [base EXCEPT !.status = 400,
                                       !.msg = "Only 'Liked' renderings can be downloaded."]
                       ELSE last' = [base EXCEPT !.msg = "download_urls",
                                       !.urls = {<<"static", p>> : p \in liked_paths}]
                    /\ UNCHANGED <<renderings, files>>
               ELSE /\ last' = [base EXCEPT !.status = 400, !.msg = "Unknown action."]
                    /\ UNCHANGED <<renderings, files>>
            /\ UNCHANGED <<users, nextUserId, session, nextId, nextUuid, clock>>
            /\ UnchangedProj

-----------------------------------------------------------------------------
(* src/architect_3_d_home_modeler_flask_app_app.py: the project-based revision *)

\* ROOM_DEFS: title and option names (the first two of each room are kept)
ROOM_KEYS ==
    {"front_exterior", "back_exterior", "living_room", "kitchen", "home_office",
     "primary_bedroom", "primary_bathroom", "bedroom2", "bedroom3", "family_room",
     "half_bath", "basement_game_room", "basement_gym", "basement_theater",
     "basement_hallway"}
RoomTitle(room_key) ==
    CASE room_key = "front_exterior" -> "Front Exterior"
      [] room_key = "back_exterior" -> "Back Exterior"
      [] room_key = "kitchen" -> "Kitchen"
      [] OTHER -> room_key
RoomOptionNames(room_key) ==
    CASE room_key = "front_exterior" -> <<"style", "siding">>
      [] room_key = "back_exterior" -> <<"patio", "pool">>
      [] OTHER -> <<"flooring", "wall_color">>

base_rooms ==
    {"living_room", "kitchen", "home_office", "primary_bedroom", "primary_bathroom",
     "bedroom2", "bedroom3", "family_room", "half_bath"}
basement_rooms ==
    {"basement_game_room", "basement_gym", "basement_theater", "basement_hallway"}

\* f"proj{project_id}_{key}_{timestamp}.jpg"
Filename(project_id, key, now) == <<"proj", project_id, key, now>>

\* INSERT INTO renderings (...) of the project-based revision
InsertProjRendering(id, project_id, uid, room_key, options, filename, now) ==
    [id |-> id, project_id |-> project_id, user_id |-> uid, room_key |-> room_key,
     title |-> RoomTitle(room_key), options_json |-> JsonDumps(options),
     image_filename |-> filename, liked |-> 0, favorite |-> 0, created_at |-> now]

\* ... WHERE project_id=? AND room_key=? AND id IN (...)
InRoom(project_id, room_key, ids) ==
    {r \in renderings :
        r.project_id = project_id /\ r.room_key = room_key /\ r.id \in ids}

UnchangedApp == UNCHANGED <<rev, nextUuid, bp, inflight, config>>

\* POST /register
p_register(email_in, password) ==
    LET email == Lower(Strip(email_in)) IN
    /\ IsProj
    /\ IF \E u \in users : u.email = email
       THEN /\ last' = Resp("register", 200, "Email already registered.")
            /\ UNCHANGED <<users, nextUserId>>
       ELSE /\ users' = users \cup
                 {[id |-> nextUserId, email |-> email, name |-> UserName,
                   password_hash |-> generate_password_hash(password)]}
            /\ nextUserId' = nextUserId + 1
            /\ last' = Resp("register", 302, "Account created. Please log in.")
    /\ UNCHANGED <<session, projects, nextProjectId, renderings, files, nextId, clock>>
    /\ UnchangedApp

\* POST /login
p_login(email_in, password) ==
    LET email == Lower(Strip(email_in))
        found == {u \in users : u.email = email}
    IN
    /\ IsProj
    /\ IF \E u \in found : check_password_hash(u.password_hash, password)
       THEN LET row == CHOOSE u \in found : TRUE IN
            /\ session' = [session EXCEPT !.user_id = row.id,
                                          !.username = Some(row.name)]
            /\ last' = Resp("login", 302, "Welcome back!")
       ELSE /\ last' = Resp("login", 200, "Invalid credentials.")
            /\ UNCHANGED session
    /\ UNCHANGED <<users, nextUserId, projects, nextProjectId, renderings, files,
                   nextId, clock>>
    /\ UnchangedApp

\* GET /logout
p_logout ==
    /\ IsProj
    /\ session' = NoSession
    /\ last' = Resp("logout", 302, "Logged out.")
    /\ UNCHANGED <<users, nextUserId, projects, nextProjectId, renderings, files,
                   nextId, clock>>
    /\ UnchangedApp

\* POST /generate: the project and its two exterior renderings, committed
\* together. frontOk, backOk: whether create_placeholder_image returns.
p_generate(description_in, frontOk, backOk) ==
    LET description == Strip(description_in)
        has_basement == IF Contains(Lower(description), S_basement) THEN 1 ELSE 0
        uid == session.user_id
        project_id == nextProjectId
        options(key) ==
            [i \in 1..Len(RoomOptionNames(key)) |-> <<RoomOptionNames(key)[i], Some(<<>>)>>]
        front == Filename(project_id, "front_exterior", clock)
        back == Filename(project_id, "back_exterior", clock)
    IN
    /\ IsProj
    /\ clock < MaxClock
    /\ IF ~frontOk
       THEN /\ last' = [Resp("generate", 500, "Internal Server Error") EXCEPT !.gen = 1]
            /\ UNCHANGED <<projects, nextProjectId, renderings, files, nextId, clock>>
       ELSE IF ~backOk
       THEN /\ files' = files \cup {front}
            /\ clock' = clock + 1
            /\ last' = [Resp("generate", 500, "Internal Server Error") EXCEPT !.gen = 2]
            /\ UNCHANGED <<projects, nextProjectId, renderings, nextId>>
       ELSE /\ projects' = projects \cup
                 {[id |-> project_id, user_id |-> uid, description |-> description,
                   has_basement |-> has_basement, created_at |-> clock]}
            /\ nextProjectId' = nextProjectId + 1
            /\ files' = files \cup {front, back}
            /\ renderings' = renderings \cup
                 {InsertProjRendering(nextId, project_id, uid, "front_exterior",
                                      options("front_exterior"), front, clock),
                  InsertProjRendering(nextId + 1, project_id, uid, "back_exterior",
                                      options("back_exterior"), back, clock)}
            /\ nextId' = nextId + 2
            /\ clock' = clock + 1
            /\ last' = [Resp("generate", 302, "plan") EXCEPT !.gen = 2,
                                                             !.target = project_id]
    /\ UNCHANGED <<users, nextUserId, session>>
    /\ UnchangedApp

\* GET /plan/<project_id>
plan(project_id) ==
    LET found == {q \in projects : q.id = project_id} IN
    /\ IsProj
    /\ IF found = {}
       THEN last' = [Resp("plan", 404, "Not Found") EXCEPT !.target = project_id]
       ELSE LET project == CHOOSE q \in found : TRUE
                rooms == IF project.has_basement # 0
                         THEN base_rooms \cup basement_rooms ELSE base_rooms
                favorites_count ==
                    Cardinality({r \in renderings :
                                   r.project_id = project_id /\ r.favorite = 1})
            IN  last' = [Resp("plan", 200, "plan.html")
                           EXCEPT !.target = project_id, !.rooms = rooms,
                                  !.n = favorites_count,
                                  !.show = (favorites_count >= 2)]
    /\ UNCHANGED <<users, nextUserId, session, projects, nextProjectId, renderings,
                   files, nextId, clock>>
    /\ UnchangedApp

\* POST /plan/<project_id>/room/<room_key>/generate
generate_rendering(project_id, room_key, form, imgOk) ==
    LET uid == session.user_id
        names == RoomOptionNames(room_key)
        options == [i \in 1..Len(names) |->
                      <<names[i], Some(Strip(IF form[i].some THEN form[i].val ELSE <<>>))>>]
        filename == Filename(project_id, room_key, clock)
    IN
    /\ IsProj
    /\ clock < MaxClock
    /\ IF room_key \notin ROOM_KEYS
       THEN /\ last' = [Resp("generate_rendering", 404, "Not Found")
                          EXCEPT !.target = project_id]
            /\ UNCHANGED <<renderings, files, nextId, clock>>
       ELSE IF ~imgOk
       THEN /\ last' = [Resp("generate_rendering", 500, "Internal Server Error")
                          EXCEPT !.gen = 1, !.target = project_id]
            /\ UNCHANGED <<renderings, files, nextId, clock>>
       ELSE /\ files' = files \cup {filename}
            /\ renderings' = renderings \cup
                 {InsertProjRendering(nextId, project_id, uid, room_key, options,
                                      filename, clock)}
            /\ nextId' = nextId + 1
            /\ clock' = clock + 1
            /\ last' = [Resp("generate_rendering", 302, "Rendering created.")
                          EXCEPT !.gen = 1, !.target = project_id]
    /\ UNCHANGED <<users, nextUserId, session, projects, nextProjectId>>
    /\ UnchangedApp

\* the like/favorite branch: UPDATE renderings SET field=1 WHERE ...
SetFlagRows(field, project_id, room_key, ids) ==
    {IF r \in InRoom(project_id, room_key, ids)
     THEN (IF field = "liked" THEN [r EXCEPT !.liked = 1] ELSE [r EXCEPT !.favorite = 1])
     ELSE r : r \in renderings}

\* the download and email branches: the files of the liked rows selected
LikedFiles(project_id, room_key, ids) ==
    {r.image_filename : r \in {x \in InRoom(project_id, room_key, ids) : x.liked # 0}}

\* POST /plan/<project_id>/room/<room_key>/bulk
p_bulk_action(project_id, room_key, action, ids, recipient) ==
    LET base == [Resp("bulk_action", 302, "") EXCEPT !.action = action, !.ids = ids,
                                                     !.target = project_id,
                                                     !.room_key = room_key]
        rows == InRoom(project_id, room_key, ids)
    IN
    /\ IsProj
    /\ IF ids = {}
       THEN /\ last' = [base EXCEPT !.msg = "No renderings selected."]
            /\ UNCHANGED <<renderings, files>>
       ELSE IF action = "delete"
       THEN LET present == {r \in rows : r.image_filename \in files} IN
            \/ /\ files' = files \ {r.image_filename : r \in rows}
               /\ renderings' = renderings \ rows
               /\ last' = [base EXCEPT !.msg = "Deleted selected renderings."]
            \/ \E f \in present :
               \* unlink() of f raises: the request ends before the DELETE
               /\ files' = files \ {r.image_filename : r \in {x \in rows : x.id < f.id}}
               /\ last' = [base EXCEPT !.status = 500, !.msg = "Internal Server Error"]
               /\ UNCHANGED renderings
       ELSE IF action \in {"like", "favorite"}
       THEN LET field == IF action = "like" THEN "liked" ELSE "favorite" IN
            /\ renderings' = SetFlagRows(field, project_id, room_key, ids)
            /\ last' = [base EXCEPT !.msg = "Marked."]
            /\ UNCHANGED files
       ELSE IF action = "download"
       THEN LET liked_files == LikedFiles(project_id, room_key, ids) IN
            /\ IF liked_files = {}
               THEN last' = [base EXCEPT
                               !.msg = "Only Liked renderings can be downloaded. None selected."]
               ELSE last' = [base EXCEPT !.status = 200, !.msg = "zip",
                                         !.urls = liked_files \cap files]
            /\ UNCHANGED <<renderings, files>>
       ELSE IF action = "email"
       THEN LET liked_files == LikedFiles(project_id, room_key, ids) IN
            /\ IF recipient = ""
               THEN last' = [base EXCEPT !.msg = "Recipient email required."]
               ELSE IF liked_files = {}
               THEN last' = [base EXCEPT
                               !.msg = "Only Liked renderings can be emailed. None selected."]
               ELSE \E mailOk \in BOOLEAN :
                    IF mailOk /\ liked_files \subseteq files
                    THEN last' = [base EXCEPT !.msg = "Email sent.", !.sent = liked_files]
                    ELSE last' = [base EXCEPT !.msg = "Email failed"]
            /\ UNCHANGED <<renderings, files>>
       ELSE /\ last' = [base EXCEPT !.msg = "Unknown action."]
            /\ UNCHANGED <<renderings, files>>
    /\ UNCHANGED <<users, nextUserId, session, projects, nextProjectId, nextId, clock>>
    /\ UnchangedApp

\* GET /slideshow/<project_id>
p_slideshow(project_id) ==
    LET images == {r \in renderings : r.project_id = project_id /\ r.favorite = 1} IN
    /\ IsProj
    /\ IF Cardinality(images) < 2
       THEN last' = [Resp("slideshow", 302, "Need at least 2 favorites to start a slideshow.")
                       EXCEPT !.target = project_id]
       ELSE last' = [Resp("slideshow", 200, "slideshow.html")
                       EXCEPT !.target = project_id, !.items = {r.id : r \in images}]
    /\ UNCHANGED <<users, nextUserId, session, projects, nextProjectId, renderings,
                   files, nextId, clock>>
    /\ UnchangedApp

-----------------------------------------------------------------------------
(* Specification *)

\* the accounts of the two users the requests act for: users after the
\* registrations of a and b, both with password "pw"
RegisteredUsers ==
    {[id |-> 1, email |-> <<"a">>, name |-> UserName,
      password_hash |-> generate_password_hash("pw")],
     [id |-> 2, email |-> <<"b">>, name |-> UserName,
      password_hash |-> generate_password_hash("pw")]}

Init ==
    /\ rev \in {"app", "proj"}
    /\ users = RegisteredUsers
    /\ projects = {}
    /\ renderings = {}
    /\ files = {}
    /\ session = NoSession
    /\ nextUserId = Cardinality(RegisteredUsers) + 1
    /\ nextProjectId = 1
    /\ nextId = 1
    /\ nextUuid = 1
    /\ clock = 0
    /\ last = [Resp("init", 0, "") EXCEPT !.user = NoUser]
    /\ bp = [called |-> FALSE]
    /\ inflight = NoRequests
    /\ config = Initialized

Register ==
    \E e \in EmailInputs, pw \in RegisterPasswords : register(e, pw) \/ p_register(e, pw)
Login == \E e \in EmailInputs, pw \in LoginPasswords : login(e, pw) \/ p_login(e, pw)
Logout == logout \/ p_logout
Generate ==
    \E d \in Descriptions, pl \in PlanFlags, frontOk \in BOOLEAN, backOk \in BOOLEAN :
        generate(d, pl, frontOk, backOk)
GenerateRoom ==
    \E sc \in SubcategoryInputs, d \in RoomDescriptions, pl \in PlanFlags, f \in Forms,
       genOk \in BOOLEAN : generate_room(sc, d, pl, f, genOk)
ModifyRendering ==
    \E rid \in Ids, d \in RoomDescriptions, f \in ModifyForms, genOk \in BOOLEAN :
        modify_rendering(rid, d, f, genOk)
ProjGenerate ==
    \E d \in ProjDescriptions, frontOk \in BOOLEAN, backOk \in BOOLEAN :
        p_generate(d, frontOk, backOk)
Plan == \E pid \in ProjectInputs : plan(pid)
GenerateRendering ==
    \E pid \in ProjectInputs, k \in {"back_exterior", "garage"}, f \in Forms, imgOk \in BOOLEAN :
        generate_rendering(pid, k, f, imgOk)
ProjBulkAction ==
    \E pid \in ProjectInputs, k \in BulkRoomKeys, a \in Actions, ids \in SUBSET Ids :
        \E to \in (IF a = "email" THEN ToEmails ELSE {""}) :
            p_bulk_action(pid, k, a, ids, to)
ProjSlideshow == \E pid \in ProjectInputs : p_slideshow(pid)
Gallery == gallery
Slideshow == slideshow
BulkAction ==
    \E a \in Actions, idsIn \in IdInputs :
        \E to \in (IF a = "email" THEN ToEmails ELSE {""}) : bulk_action(a, idsIn, to)

Next ==
    \/ Register
    \/ Login
    \/ Logout
    \/ Generate
    \/ GenerateRoom
    \/ ModifyRendering
    \/ Gallery
    \/ Slideshow
    \/ BulkAction
    \/ ProjGenerate
    \/ Plan
    \/ GenerateRendering
    \/ ProjBulkAction
    \/ ProjSlideshow

Spec == Init /\ [][Next]_vars

-----------------------------------------------------------------------------
(* build_prompt on its own: the arguments are drawn at the start, one step  *)
(* calls the function                                                       *)

V_Pool == <<"P","o","o","l">>
PromptAlphabet == {"p", "o", "l", "P", " "}
StringsUpTo(n) == UNION {[1..k -> PromptAlphabet] : k \in 0..n}
PromptDescriptions == StringsUpTo(MaxLen)
\* the value "No" of the catalog (Fireplace, Balcony, ...), and values a form
\* may send in other spellings
V_No == <<"N","o">>
V_no == <<"n","o">>
V_none == <<"n","o","n","e">>
V_CommaPool == <<"a",","," ","P","o","o","l">>
PromptSubcategories ==
    {Some(FrontExterior), Some(BackExterior), Some(Kitchen), Some(LivingRoom)}
PromptOptionMaps ==
    {<<>>,
     <<<<K_Siding, Some(V_Pool)>>, <<K_Vehicle, Some(S_None)>>>>,
     <<<<K_Countertops, Some(V_Quartz)>>, <<K_Backsplash, Absent>>>>,
     <<<<K_Fireplace, Some(V_No)>>, <<K_Backsplash, Some(V_none)>>,
       <<K_Vehicle, Some(V_no)>>>>,
     <<<<K_Countertops, Some(V_Quartz)>>, <<K_Backsplash, Some(S_None)>>>>,
     <<<<K_Siding, Some(V_CommaPool)>>, <<K_Countertops, Some(V_Quartz)>>>>,
     <<<<K_Vehicle, Some(S_None)>>, <<K_Backsplash, Some(<<>>)>>,
       <<K_Fireplace, Absent>>>>}

InitPrompt ==
    /\ rev = "app"
    /\ users = {}
    /\ projects = {}
    /\ renderings = {}
    /\ files = {}
    /\ session = NoSession
    /\ nextUserId = 1
    /\ nextProjectId = 1
    /\ nextId = 1
    /\ nextUuid = 1
    /\ clock = 0
    /\ last = [Resp("init", 0, "") EXCEPT !.user = NoUser]
    /\ bp \in [called : {FALSE}, subcategory : PromptSubcategories,
               options_map : PromptOptionMaps, description : PromptDescriptions,
               plan_uploaded : BOOLEAN, prompt : {<<>>}]
    /\ inflight = NoRequests
    /\ config = Initialized

BuildPrompt ==
    /\ ~bp.called
    /\ bp' = [bp EXCEPT !.called = TRUE,
                        !.prompt = build_prompt(bp.subcategory, bp.options_map,
                                                bp.description, bp.plan_uploaded)]
    /\ UNCHANGED <<rev, users, projects, renderings, files, session, nextUserId,
                   nextProjectId, nextId, nextUuid, clock, last, inflight, config>>

NextPrompt == BuildPrompt

SpecPrompt == InitPrompt /\ [][NextPrompt]_vars

-----------------------------------------------------------------------------
(* One browser session of src/app.py from its first request on: the users  *)
(* table is empty, the session cookie is empty                              *)

\* the addresses typed into the forms: two of them differ only in case and
\* surrounding blanks from a stored form, one is blank
AuthEmails == EmailInputs \cup {<<"c">>, <<" ">>}

InitAuth ==
    /\ rev = "app"
    /\ users = {}
    /\ projects = {}
    /\ renderings = {}
    /\ files = {}
    /\ session = NoSession
    /\ nextUserId = 1
    /\ nextProjectId = 1
    /\ nextId = 1
    /\ nextUuid = 1
    /\ clock = 0
    /\ last = [Resp("init", 0, "") EXCEPT !.user = NoUser]
    /\ bp = [called |-> FALSE]
    /\ inflight = NoRequests
    /\ config = Initialized

AuthRegister == \E e \in AuthEmails, pw \in RegisterPasswords : register(e, pw)
AuthLogin == \E e \in AuthEmails, pw \in LoginPasswords : login(e, pw)
AuthLogout == logout

NextAuth ==
    \/ AuthRegister
    \/ AuthLogin
    \/ AuthLogout
    \/ Gallery
    \/ Slideshow

SpecAuth == InitAuth /\ [][NextAuth]_vars

-----------------------------------------------------------------------------
(* register under concurrency: each request is served by its own worker,   *)
(* the statements of a handler are its steps, the database executes one    *)
(* statement at a time. Every request comes from a browser of its own.     *)

MaxRequests == 2
Requests == 1..MaxRequests

\* the addresses typed: "A " and "a" are the same address after strip().lower()
RegisterEmails == EmailInputs \cup {<<"a">>}

\* a worker that serves no request
Idle == [pc |-> "idle", email |-> <<>>, password |-> "", user_id |-> NoUser,
         status |-> 0, msg |-> ""]

InitRegister ==
    /\ rev \in {"app", "proj"}
    /\ users = {}
    /\ projects = {}
    /\ renderings = {}
    /\ files = {}
    /\ session = NoSession
    /\ nextUserId = 1
    /\ nextProjectId = 1
    /\ nextId = 1
    /\ nextUuid = 1
    /\ clock = 0
    /\ last = [Resp("init", 0, "") EXCEPT !.user = NoUser]
    /\ bp = [called |-> FALSE]
    /\ inflight = [r \in Requests |-> Idle]
    /\ config = Initialized

UnchangedByRegister ==
    UNCHANGED <<rev, projects, renderings, files, session, nextProjectId, nextId,
                nextUuid, clock, last, bp, config>>

Answer(r, status, msg) ==
    inflight' = [inflight EXCEPT ![r].pc = "done", ![r].status = status, ![r].msg = msg]

\* src/app.py register up to the SELECT: the form is read and checked,
\* "SELECT id FROM users WHERE email = ?" is executed
reg_check(r, email_in, password) ==
    LET email == Lower(Strip(email_in)) IN
    /\ IsApp
    /\ inflight[r].pc = "idle"
    /\ IF email = <<>> \/ password = ""
       THEN Answer(r, 302, "Email and password are required.")
       ELSE IF \E u \in users : u.email = email
       THEN Answer(r, 302, "Email already registered.")
       ELSE inflight' = [inflight EXCEPT ![r].pc = "insert", ![r].email = email,
                                         ![r].password = password]
    /\ UNCHANGED <<users, nextUserId>>
    /\ UnchangedByRegister

\* the project-based revision up to the INSERT: the form is read
p_reg_begin(r, email_in, password) ==
    /\ IsProj
    /\ inflight[r].pc = "idle"
    /\ inflight' = [inflight EXCEPT ![r].pc = "insert",
                                    ![r].email = Lower(Strip(email_in)),
                                    ![r].password = password]
    /\ UNCHANGED <<users, nextUserId>>
    /\ UnchangedByRegister

\* reg_insert on a users table without UNIQUE on email
reg_insert_NoUnique(r) ==
    LET email == inflight[r].email IN
    /\ inflight[r].pc = "insert"
    /\ users' = users \cup
            {[id |-> nextUserId, email |-> email, name |-> UserName,
              password_hash |-> generate_password_hash(inflight[r].password)]}
    /\ nextUserId' = nextUserId + 1
    /\ IF IsApp
       THEN inflight' = [inflight EXCEPT ![r].pc = "done", ![r].status = 302,
                                         ![r].msg = "Welcome! Account created.",
                                         ![r].user_id = nextUserId]
       ELSE Answer(r, 302, "Account created. Please log in.")
    /\ UnchangedByRegister

\* INSERT INTO users ... and what follows it. email is UNIQUE: the INSERT of
\* a stored address raises sqlite3.IntegrityError, which src/app.py does not
\* catch and the project-based revision reports.
reg_insert(r) ==
    LET email == inflight[r].email IN
    /\ inflight[r].pc = "insert"
    /\ IF \E u \in users : u.email = email
       THEN /\ IF IsApp THEN Answer(r, 500, "IntegrityError")
               ELSE Answer(r, 200, "Email already registered.")
            /\ UNCHANGED <<users, nextUserId>>
       ELSE /\ users' = users \cup
                 {[id |-> nextUserId, email |-> email, name |-> UserName,
                   password_hash |-> generate_password_hash(inflight[r].password)]}
            /\ nextUserId' = nextUserId + 1
            /\ IF IsApp
               THEN inflight' = [inflight EXCEPT ![r].pc = "done", ![r].status = 302,
                                                 ![r].msg = "Welcome! Account created.",
                                                 ![r].user_id = nextUserId]
               ELSE Answer(r, 302, "Account created. Please log in.")
    /\ UnchangedByRegister

\* the response is sent: the worker is free for the next request
reg_respond(r) ==
    /\ inflight[r].pc = "done"
    /\ inflight' = [inflight EXCEPT ![r] = Idle]
    /\ UNCHANGED <<users, nextUserId>>
    /\ UnchangedByRegister

RegCheck == \E r \in Requests, e \in RegisterEmails, pw \in RegisterPasswords : reg_check(r, e, pw)
ProjRegBegin ==
    \E r \in Requests, e \in RegisterEmails, pw \in RegisterPasswords : p_reg_begin(r, e, pw)
RegInsert == \E r \in Requests : reg_insert(r)
RegRespond == \E r \in Requests : reg_respond(r)

NextRegister ==
    \/ RegCheck
    \/ ProjRegBegin
    \/ RegInsert
    \/ RegRespond

SpecRegister == InitRegister /\ [][NextRegister]_vars

-----------------------------------------------------------------------------
(* generate_rendering of the project-based revision under concurrency: the *)
(* handler reads the clock, writes the image, inserts the row. Writing an   *)
(* image takes longer than the resolution of the clock.                     *)

GenRoomKeys == {"back_exterior", "kitchen", "garage"}

IdleGen == [pc |-> "idle", project_id |-> 0, room_key |-> "", options |-> <<>>,
            filename |-> <<>>, now |-> 0, status |-> 0, msg |-> ""]

InitGenerate ==
    /\ rev = "proj"
    /\ users = RegisteredUsers
    /\ projects = {}
    /\ renderings = {}
    /\ files = {}
    /\ session = NoSession
    /\ nextUserId = Cardinality(RegisteredUsers) + 1
    /\ nextProjectId = 1
    /\ nextId = 1
    /\ nextUuid = 1
    /\ clock = 0
    /\ last = [Resp("init", 0, "") EXCEPT !.user = NoUser]
    /\ bp = [called |-> FALSE]
    /\ inflight = [r \in Requests |-> IdleGen]
    /\ config = Initialized

UnchangedByGenerate ==
    UNCHANGED <<rev, users, projects, session, nextUserId, nextProjectId, nextUuid,
                last, bp, config>>

\* lines 923-932: the room key is checked, now, the options and the file
\* name are computed from the form and the clock
gr_begin(r, project_id, room_key, form) ==
    LET names == RoomOptionNames(room_key)
        options == [i \in 1..Len(names) |->
                      <<names[i], Some(Strip(IF form[i].some THEN form[i].val ELSE <<>>))>>]
    IN
    /\ IsProj
    /\ clock < MaxClock
    /\ inflight[r].pc = "idle"
    /\ IF room_key \notin ROOM_KEYS
       THEN inflight' = [inflight EXCEPT ![r].pc = "done", ![r].status = 404,
                                         ![r].msg = "Not Found"]
       ELSE inflight' = [inflight EXCEPT
                            ![r].pc = "image", ![r].project_id = project_id,
                            ![r].room_key = room_key, ![r].options = options,
                            ![r].now = clock,
                            ![r].filename = Filename(project_id, room_key, clock)]
    /\ UNCHANGED <<renderings, files, nextId, clock>>
    /\ UnchangedByGenerate

\* lines 933-937: create_placeholder_image writes the file (an existing file
\* of that name is overwritten) or raises; meanwhile the clock has moved on
gr_image(r, imgOk) ==
    /\ IsProj
    /\ inflight[r].pc = "image"
    /\ IF imgOk
       THEN /\ files' = files \cup {inflight[r].filename}
            /\ inflight' = [inflight EXCEPT ![r].pc = "insert"]
       ELSE /\ inflight' = [inflight EXCEPT ![r].pc = "done", ![r].status = 500,
                                            ![r].msg = "Internal Server Error"]
            /\ UNCHANGED files
    /\ clock' = IF clock = inflight[r].now THEN clock + 1 ELSE clock
    /\ UNCHANGED <<renderings, nextId>>
    /\ UnchangedByGenerate

\* lines 939-946: INSERT INTO renderings, commit, flash, redirect
gr_insert(r) ==
    /\ IsProj
    /\ inflight[r].pc = "insert"
    /\ renderings' = renderings \cup
         {InsertProjRendering(nextId, inflight[r].project_id, session.user_id,
                              inflight[r].room_key, inflight[r].options,
                              inflight[r].filename, inflight[r].now)}
    /\ nextId' = nextId + 1
    /\ inflight' = [inflight EXCEPT ![r].pc = "done", ![r].status = 302,
                                    ![r].msg = "Rendering created."]
    /\ UNCHANGED <<files, clock>>
    /\ UnchangedByGenerate

\* the response is sent: the worker is free for the next request
gr_respond(r) ==
    /\ IsProj
    /\ inflight[r].pc = "done"
    /\ inflight' = [inflight EXCEPT ![r] = IdleGen]
    /\ UNCHANGED <<renderings, files, nextId, clock>>
    /\ UnchangedByGenerate

GrBegin ==
    \E r \in Requests, pid \in ProjectInputs, k \in GenRoomKeys, f \in Forms :
        gr_begin(r, pid, k, f)
GrImage == \E r \in Requests, imgOk \in BOOLEAN : gr_image(r, imgOk)
GrInsert == \E r \in Requests : gr_insert(r)
GrRespond == \E r \in Requests : gr_respond(r)

NextGenerate ==
    \/ GrBegin
    \/ GrImage
    \/ GrInsert
    \/ GrRespond

SpecGenerate == InitGenerate /\ [][NextGenerate]_vars

-----------------------------------------------------------------------------
(* like and favorite requests of src/app.py served at the same time: each
   request runs bulk_action on its own connection, the database executes
   one statement or one committed batch at a time *)

\* the table after one generate request of user 1, with any flags earlier
\* like and favorite actions may have left
ToggleTables ==
    LET front == InsertRendering(1, 1, "EXTERIOR", FrontExterior, <<>>,
                     build_prompt(Some(FrontExterior), <<>>, D_Basement, FALSE),
                     save_image_bytes(1), 0)
        back == InsertRendering(2, 1, "EXTERIOR", BackExterior, <<>>,
                     build_prompt(Some(BackExterior), <<>>, D_Basement, FALSE),
                     save_image_bytes(2), 0)
    IN  {{[front EXCEPT !.liked = l1, !.favorited = f1],
          [back EXCEPT !.liked = l2, !.favorited = f2]} :
            l1 \in {0, 1}, f1 \in {0, 1}, l2 \in {0, 1}, f2 \in {0, 1}}

IdleBulk == [pc |-> "idle", user_id |-> NoUser, action |-> "", ids |-> {},
             rows |-> {}, status |-> 0, msg |-> ""]

InitToggle ==
    /\ rev = "app"
    /\ users = RegisteredUsers
    /\ projects = {}
    /\ renderings \in ToggleTables
    /\ files = {save_image_bytes(1), save_image_bytes(2)}
    /\ session = NoSession
    /\ nextUserId = Cardinality(RegisteredUsers) + 1
    /\ nextProjectId = 1
    /\ nextId = 3
    /\ nextUuid = 3
    /\ clock = 1
    /\ last = [Resp("init", 0, "") EXCEPT !.user = NoUser]
    /\ bp = [called |-> FALSE]
    /\ inflight = [r \in Requests |-> IdleBulk]
    /\ config = Initialized

UnchangedByToggle ==
    UNCHANGED <<rev, users, projects, files, session, nextUserId, nextProjectId,
                nextId, nextUuid, clock, last, bp, config>>

\* lines 530-558: the ids are required, then
\* SELECT id, {field} FROM renderings WHERE id IN (...) AND user_id = ?
ba_select(r, user_id, action, idsIn) ==
    LET field == IF action = "like" THEN "liked" ELSE "favorited"
        rows == {<<x.id, IF field = "liked" THEN x.liked ELSE x.favorited>> :
                    x \in Selected(idsIn.ids, user_id)}
    IN
    /\ IsApp
    /\ inflight[r].pc = "idle"
    /\ IF ~idsIn.given
       THEN inflight' = [inflight EXCEPT ![r] =
               [IdleBulk EXCEPT !.pc = "done", !.user_id = user_id, !.action = action,
                                !.status = 400, !.msg = "No renderings selected."]]
       ELSE inflight' = [inflight EXCEPT ![r] =
               [IdleBulk EXCEPT !.pc = "update", !.user_id = user_id, !.action = action,
                                !.ids = idsIn.ids, !.rows = rows]]
    /\ UNCHANGED renderings
    /\ UnchangedByToggle

\* ba_update writing 1 whatever the SELECT returned
ba_update_SetTrue(r) ==
    LET field == IF inflight[r].action = "like" THEN "liked" ELSE "favorited"
        updates == {<<1, row[1]>> : row \in inflight[r].rows}
    IN
    /\ IsApp
    /\ inflight[r].pc = "update"
    /\ renderings' =
         {IF \E u \in updates : u[2] = x.id
          THEN (IF field = "liked" THEN [x EXCEPT !.liked = 1]
                ELSE [x EXCEPT !.favorited = 1])
          ELSE x : x \in renderings}
    /\ inflight' = [inflight EXCEPT ![r].pc = "done", ![r].status = 200,
                                    ![r].msg = "Updated rendering(s)."]
    /\ UnchangedByToggle

\* lines 559-568: new_val = 1 - row[field] for the rows read, then
\* executemany UPDATE renderings SET {field} = ? WHERE id = ? and commit
ba_update(r) ==
    LET field == IF inflight[r].action = "like" THEN "liked" ELSE "favorited"
        updates == {<<1 - row[2], row[1]>> : row \in inflight[r].rows}
    IN
    /\ IsApp
    /\ inflight[r].pc = "update"
    /\ renderings' =
         {IF \E u \in updates : u[2] = x.id
          THEN LET new_val == (CHOOSE u \in updates : u[2] = x.id)[1]
               IN  IF field = "liked" THEN [x EXCEPT !.liked = new_val]
                   ELSE [x EXCEPT !.favorited = new_val]
          ELSE x : x \in renderings}
    /\ inflight' = [inflight EXCEPT ![r].pc = "done", ![r].status = 200,
                                    ![r].msg = "Updated rendering(s)."]
    /\ UnchangedByToggle

BaSelect ==
    \E r \in Requests, u \in {x.id : x \in RegisteredUsers},
       action \in {"like", "favorite"}, idsIn \in IdInputs :
        ba_select(r, u, action, idsIn)
BaUpdate == \E r \in Requests : ba_update(r)

NextToggle ==
    \/ BaSelect
    \/ BaUpdate

SpecToggle == InitToggle /\ [][NextToggle]_vars

-----------------------------------------------------------------------------
(* the first requests to src/app.py: before_request runs init_fs_once and
   init_db_once in every request, on the shared app.config and the shared
   disk, before the route handler *)

Tables == {"users", "renderings"}

\* the disk a starting process may find: nothing, or what an earlier run of
\* the application left, whole or in part; rows need their table
Disks ==
    {d \in [dirs : BOOLEAN, scaffold : {"missing", "written"},
            tables : SUBSET Tables, users : {{}, RegisteredUsers}] :
        /\ (d.scaffold = "written" => d.dirs)
        /\ (d.tables # {} => d.dirs)
        /\ (d.users # {} => "users" \in d.tables)}

IdleInit == [pc |-> "idle", status |-> 0, msg |-> ""]

\* lines 70-71: app.config.setdefault(..., False) for both flags
InitInit ==
    /\ rev = "app"
    /\ \E d \in Disks :
          /\ config = [FS_INITIALIZED |-> FALSE, DB_INITIALIZED |-> FALSE,
                       dirs |-> d.dirs, scaffold |-> d.scaffold, tables |-> d.tables]
          /\ users = d.users
          /\ nextUserId = Cardinality(d.users) + 1
    /\ projects = {}
    /\ renderings = {}
    /\ files = {}
    /\ session = NoSession
    /\ nextProjectId = 1
    /\ nextId = 1
    /\ nextUuid = 1
    /\ clock = 0
    /\ last = [Resp("init", 0, "") EXCEPT !.user = NoUser]
    /\ bp = [called |-> FALSE]
    /\ inflight = [r \in Requests |-> IdleInit]

UnchangedByInit ==
    UNCHANGED <<rev, projects, renderings, files, session, nextProjectId, nextId,
                nextUuid, clock, last, bp>>

Goto(r, pc) == inflight' = [inflight EXCEPT ![r].pc = pc]

\* init_fs_once, line 98: if not app.config["FS_INITIALIZED"]
fs_check(r) ==
    /\ IsApp
    /\ inflight[r].pc = "idle"
    /\ Goto(r, IF config.FS_INITIALIZED THEN "db_check" ELSE "fs_mkdir")
    /\ UNCHANGED <<config, users, nextUserId>>
    /\ UnchangedByInit

\* lines 99-100: mkdir(parents=True, exist_ok=True) for the four directories
fs_mkdir(r) ==
    /\ IsApp
    /\ inflight[r].pc = "fs_mkdir"
    /\ config' = [config EXCEPT !.dirs = TRUE]
    /\ Goto(r, "fs_write")
    /\ UNCHANGED <<users, nextUserId>>
    /\ UnchangedByInit

\* lines 101-102: the first write_text opens its file for writing; a file
\* that exists is truncated and written again
fs_write_begin(r) ==
    /\ IsApp
    /\ inflight[r].pc = "fs_write"
    /\ config' = [config EXCEPT
                    !.scaffold = IF @ = "missing" THEN "missing" ELSE "rewriting"]
    /\ Goto(r, "fs_writing")
    /\ UNCHANGED <<users, nextUserId>>
    /\ UnchangedByInit

\* lines 101-102: the last write_text has returned; every scaffolded file
\* exists, whole unless another request is still writing
fs_write_end(r) ==
    /\ IsApp
    /\ inflight[r].pc = "fs_writing"
    /\ config' = [config EXCEPT
                    !.scaffold = IF \E o \in Requests \ {r} : inflight[o].pc = "fs_writing"
                                 THEN "rewriting" ELSE "written"]
    /\ Goto(r, "fs_flag")
    /\ UNCHANGED <<users, nextUserId>>
    /\ UnchangedByInit

\* line 103: app.config["FS_INITIALIZED"] = True
fs_flag(r) ==
    /\ IsApp
    /\ inflight[r].pc = "fs_flag"
    /\ config' = [config EXCEPT !.FS_INITIALIZED = TRUE]
    /\ Goto(r, "db_check")
    /\ UNCHANGED <<users, nextUserId>>
    /\ UnchangedByInit

\* db_check setting the flag as soon as it has found it unset
db_check_FlagFirst(r) ==
    /\ IsApp
    /\ inflight[r].pc = "db_check"
    /\ config' = [config EXCEPT !.DB_INITIALIZED = TRUE]
    /\ Goto(r, IF config.DB_INITIALIZED THEN "body" ELSE "db_users")
    /\ UNCHANGED <<users, nextUserId>>
    /\ UnchangedByInit

\* init_db_once, lines 112-113: if app.config["DB_INITIALIZED"]: return
db_check(r) ==
    /\ IsApp
    /\ inflight[r].pc = "db_check"
    /\ Goto(r, IF config.DB_INITIALIZED THEN "body" ELSE "db_users")
    /\ UNCHANGED <<config, users, nextUserId>>
    /\ UnchangedByInit

\* lines 116-124 and 125-139: CREATE TABLE IF NOT EXISTS creates the table
\* empty when it is missing and does nothing when it exists
db_create(r, table) ==
    /\ IsApp
    /\ inflight[r].pc = (IF table = "users" THEN "db_users" ELSE "db_renderings")
    /\ config' = [config EXCEPT !.tables = @ \cup {table}]
    /\ Goto(r, IF table = "users" THEN "db_renderings" ELSE "db_flag")
    /\ UNCHANGED <<users, nextUserId>>
    /\ UnchangedByInit

\* lines 140-142: commit, close, app.config["DB_INITIALIZED"] = True
db_flag(r) ==
    /\ IsApp
    /\ inflight[r].pc = "db_flag"
    /\ config' = [config EXCEPT !.DB_INITIALIZED = TRUE]
    /\ Goto(r, "body")
    /\ UNCHANGED <<users, nextUserId>>
    /\ UnchangedByInit

\* the route handler, here register with a name and a password: it reads
\* and writes the users table, which has to exist
body(r, email_in) ==
    LET email == Lower(Strip(email_in)) IN
    /\ IsApp
    /\ inflight[r].pc = "body"
    /\ IF "users" \notin config.tables
       THEN /\ Answer(r, 500, "no such table: users")
            /\ UNCHANGED <<users, nextUserId>>
       ELSE IF \E u \in users : u.email = email
       THEN /\ Answer(r, 302, "Email already registered.")
            /\ UNCHANGED <<users, nextUserId>>
       ELSE /\ users' = users \cup
                 {[id |-> nextUserId, email |-> email, name |-> UserName,
                   password_hash |-> generate_password_hash("pw")]}
            /\ nextUserId' = nextUserId + 1
            /\ Answer(r, 302, "Welcome! Account created.")
    /\ UNCHANGED config
    /\ UnchangedByInit

\* the response is sent and the worker takes the next request
init_respond(r) ==
    /\ IsApp
    /\ inflight[r].pc = "done"
    /\ inflight' = [inflight EXCEPT ![r] = IdleInit]
    /\ UNCHANGED <<config, users, nextUserId>>
    /\ UnchangedByInit

FsCheck == \E r \in Requests : fs_check(r)
FsMkdir == \E r \in Requests : fs_mkdir(r)
FsWriteBegin == \E r \in Requests : fs_write_begin(r)
FsWriteEnd == \E r \in Requests : fs_write_end(r)
FsFlag == \E r \in Requests : fs_flag(r)
DbCheck == \E r \in Requests : db_check(r)
DbCreate == \E r \in Requests, table \in Tables : db_create(r, table)
DbFlag == \E r \in Requests : db_flag(r)
Body == \E r \in Requests, e \in {<<"c">>, <<"d">>} : body(r, e)
InitRespond == \E r \in Requests : init_respond(r)

NextInit ==
    \/ FsCheck
    \/ FsMkdir
    \/ FsWriteBegin
    \/ FsWriteEnd
    \/ FsFlag
    \/ DbCheck
    \/ DbCreate
    \/ DbFlag
    \/ Body
    \/ InitRespond

SpecInit == InitInit /\ [][NextInit]_vars

-----------------------------------------------------------------------------
(* Properties *)

\* the responses that refuse an export because nothing liked was selected
OnlyLikedErrors ==
    {"Only 'Liked' renderings can be emailed. None of the selected were liked.",
     "Only 'Liked' renderings can be downloaded.",
     "Only Liked renderings can be emailed. None selected.",
     "Only Liked renderings can be downloaded. None selected."}

\* C1: in src/app.py a bulk_action of a logged-in user A, whatever the action
\* and the ids, leaves every row of another user as it was (present, same
\* flags), and ids outside A's scope cause no error: a request is refused
\* only for a missing selection, a missing recipient, a mail failure, or
\* because none of A's own selected rows is liked.
C1_BulkActionFrame ==
    [][(IsApp /\ LoggedIn /\ last'.op = "bulk_action") =>
         /\ \A r \in renderings : r.user_id # session.user_id => r \in renderings'
         /\ \A r \in renderings' : r.user_id # session.user_id => r \in renderings
         /\ last'.status # 200 =>
              \/ last'.msg \in {"No renderings selected.",
                                "Please provide a destination email.", "Email failed"}
              \/ /\ last'.msg \in OnlyLikedErrors
                 /\ {r \in Owned(session.user_id) :
                        r.id \in last'.ids /\ r.liked # 0} = {}
      ]_vars

\* a delete named both stored rows: the user's own row is gone, the row of
\* the other user is still there
C1_Witness ==
    /\ IsApp
    /\ last.op = "bulk_action" /\ last.action = "delete" /\ last.status = 200
    /\ last.user # NoUser
    /\ last.ids = {1, 2}
    /\ Cardinality(renderings) = 1
    /\ \E r \in renderings : r.user_id # last.user /\ r.user_id # NoUser

\* C2: in src/app.py the gallery of a user lists only that user's rows, and
\* modify_rendering on the id of another user's rendering answers
\* "Rendering not found." (404) without a generator call and without
\* inserting or changing a row.
C2_OwnershipIsolation ==
    [][(IsApp /\ LoggedIn) =>
         /\ last'.op = "gallery" =>
              \A id \in last'.items :
                  /\ \E r \in renderings : r.id = id
                  /\ \A r \in renderings : r.id = id => r.user_id = session.user_id
         /\ (/\ last'.op = "modify_rendering"
             /\ \E r \in renderings : r.id = last'.target /\ r.user_id # session.user_id) =>
              /\ last'.status = 404
              /\ last'.msg = "Rendering not found."
              /\ last'.gen = 0
              /\ renderings' = renderings
      ]_vars

\* a logged-in user was refused the modification of another user's rendering
C2_Witness ==
    /\ IsApp
    /\ last.op = "modify_rendering" /\ last.status = 404
    /\ last.user # NoUser
    /\ \E r \in renderings :
          r.id = last.target /\ r.user_id # last.user /\ r.user_id # NoUser

\* C3: in the project-based revision a bulk_action (delete, like, favorite)
\* made under one session identity never deletes or changes the flags of a
\* row whose user_id is a different user.
C3_PerUserBulkAction ==
    [][(IsProj /\ last'.op = "bulk_action"
        /\ last'.action \in {"delete", "like", "favorite"}) =>
         \A r \in renderings :
             (r.user_id # NoUser /\ r.user_id # session.user_id) => r \in renderings'
      ]_vars

\* a step of src/app.py in which the image generator is called and fails
GeneratorFails ==
    /\ IsApp /\ LoggedIn
    /\ last'.gen >= 1
    /\ \/ \E d \in Descriptions, pl \in PlanFlags, frontOk \in BOOLEAN, backOk \in BOOLEAN :
             ~(frontOk /\ backOk) /\ generate(d, pl, frontOk, backOk)
       \/ \E sc \in SubcategoryInputs, d \in RoomDescriptions, pl \in PlanFlags, f \in Forms :
             generate_room(sc, d, pl, f, FALSE)
       \/ \E rid \in Ids, d \in RoomDescriptions, f \in ModifyForms :
             modify_rendering(rid, d, f, FALSE)

\* C4: when the generator fails during generate, generate_room or
\* modify_rendering, the response carries the error and the renderings table
\* is exactly as before the request.
C4_GeneratorFailure ==
    [][GeneratorFails =>
         /\ last'.msg \in {"OpenAI image generation failed", "Modification failed"}
         /\ last'.status # 200
         /\ renderings' = renderings
      ]_vars

\* the generator failed during modify_rendering of a stored rendering
C4_Witness ==
    /\ IsApp
    /\ last.op = "modify_rendering" /\ last.gen = 1
    /\ last.msg = "Modification failed" /\ last.status = 500
    /\ \E r \in renderings : r.id = last.target /\ r.user_id = last.user

\* the two rows a generate request inserts
IsExteriorPair(added) ==
    \E f \in added, b \in added :
        /\ added = {f, b}
        /\ f.user_id = b.user_id
        /\ IF IsApp
           THEN /\ f.category = "EXTERIOR" /\ f.subcategory = FrontExterior
                /\ b.category = "EXTERIOR" /\ b.subcategory = BackExterior
           ELSE /\ f.room_key = "front_exterior" /\ f.title = "Front Exterior"
                /\ b.room_key = "back_exterior" /\ b.title = "Back Exterior"

\* C5: in both revisions a generate request adds no row or exactly the pair
\* Front Exterior / Back Exterior of one owner, never one of the two, and
\* it reports success only when both rows were inserted.
C5_GeneratePair ==
    [][last'.op = "generate" =>
         LET added == renderings' \ renderings IN
         /\ renderings \subseteq renderings'
         /\ added = {} \/ IsExteriorPair(added)
         /\ last'.msg \in {"Generated Front & Back exterior renderings!", "plan"} =>
              IsExteriorPair(added)
      ]_vars

\* the request before last inserted a pair, the last one failed at the
\* second image and added nothing
C5_Witness ==
    /\ last.op = "generate" /\ last.gen = 2
    /\ last.msg \in {"OpenAI image generation failed", "Internal Server Error"}
    /\ Cardinality(renderings) = 2
    /\ nextId = 3

\* C6: for subcategory "Front Exterior", whatever the options and for every
\* description containing "pool" in any letter case, the prompt returned by
\* build_prompt does not contain "pool" in any letter case.
C6_FrontExteriorNoPool ==
    (/\ bp.called
     /\ bp.subcategory = Some(FrontExterior)
     /\ Contains(Lower(bp.description), S_pool))
    => ~Contains(Lower(bp.prompt), S_pool)

\* an email or download request of either revision
ExportRequest(action, ids, to) ==
    \/ bulk_action(action, [given |-> TRUE, ids |-> ids], to)
    \/ \E pid \in ProjectInputs, k \in BulkRoomKeys : p_bulk_action(pid, k, action, ids, to)

\* no stored rendering named by ids is liked
NoneLiked(ids) == {r \in renderings : r.id \in ids /\ r.liked # 0} = {}

\* the request changed nothing and produced nothing
NoSideEffect ==
    /\ renderings' = renderings
    /\ files' = files
    /\ last'.sent = {}
    /\ last'.urls = {}

LikedInScope ==
    IF IsApp
    THEN {r.image_path : r \in {x \in Owned(session.user_id) :
                                   x.id \in last'.ids /\ x.liked # 0}}
    ELSE {r.image_filename : r \in {x \in InRoom(last'.target, last'.room_key, last'.ids) :
                                       x.liked # 0}}

\* the artifacts the response of an export carries
Exported ==
    IF last'.action = "email" THEN last'.sent
    ELSE IF IsApp THEN {u[2] : u \in last'.urls}
    ELSE last'.urls

\* C8: the artifacts emailed or returned for download by a successful email
\* or download action are exactly those of the requested renderings that
\* are in scope and liked.
C8_ExportedSet ==
    [][(/\ last'.op = "bulk_action"
        /\ last'.action \in {"email", "download"}
        /\ last'.msg \in {"Emailed rendering(s).", "download_urls", "Email sent.", "zip"}) =>
         Exported = LikedInScope
      ]_vars

\* favorited renderings within the scope of the page asked for
FavoritedInScope ==
    IF IsApp
    THEN {r \in Owned(session.user_id) : r.favorited # 0}
    ELSE {r \in renderings : r.project_id = last'.target /\ r.favorite # 0}

FavoriteAgain ==
    /\ IsApp /\ LoggedIn
    /\ last.op = "bulk_action" /\ last.action = "favorite" /\ last.status = 200
    /\ last.user = session.user_id
    /\ last'.op = "bulk_action" /\ last'.action = "favorite" /\ last'.status = 200
    /\ last'.ids = last.ids

\* C10 as stated: the favorite action applied a second time in a row to
\* the same ids changes nothing, and leaves every targeted rendering in
\* scope favorited.
C10_FavoriteIdempotent ==
    [][FavoriteAgain =>
         /\ renderings' = renderings
         /\ \A r \in renderings' :
               (r.id \in last'.ids /\ r.user_id = session.user_id) => r.favorited = 1
      ]_vars

\* C10, amended: each favorite action of src/app.py flips favorited of every
\* targeted rendering in scope and changes nothing else, so the second of
\* two applications in a row undoes the first instead of changing nothing.
C10_FavoriteFlips ==
    [][(/\ IsApp /\ LoggedIn
        /\ last'.op = "bulk_action" /\ last'.action = "favorite"
        /\ last'.status = 200) =>
         /\ renderings' =
              {IF r.id \in last'.ids /\ r.user_id = session.user_id
               THEN [r EXCEPT !.favorited = 1 - r.favorited] ELSE r : r \in renderings}
         /\ (FavoriteAgain /\ Selected(last'.ids, session.user_id) # {}) =>
              renderings' # renderings
      ]_vars

\* right after a favorite action a targeted rendering in scope is not
\* favorited: the action cleared the flag an earlier one had set
C10_Witness ==
    /\ IsApp
    /\ last.op = "bulk_action" /\ last.action = "favorite" /\ last.status = 200
    /\ \E r \in renderings :
          r.id \in last.ids /\ r.user_id = last.user /\ r.favorited = 0

\* C11: a successful modify_rendering of src/app.py on rendering r leaves
\* every stored row, r included, exactly as it was and adds exactly one row,
\* with a new id and the user_id, category and subcategory of r.
C11_ModifyInsertsNewRow ==
    [][(/\ IsApp /\ LoggedIn
        /\ last'.op = "modify_rendering" /\ last'.status = 200) =>
         /\ renderings \subseteq renderings'
         /\ Cardinality(renderings' \ renderings) = 1
         /\ \E r \in renderings :
               /\ r.id = last'.target /\ r.user_id = session.user_id
               /\ r \in renderings'
               /\ \A n \in renderings' \ renderings :
                     /\ n.id \notin {x.id : x \in renderings}
                     /\ n.user_id = r.user_id
                     /\ n.category = r.category
                     /\ n.subcategory = r.subcategory
      ]_vars

\* right after a successful modification the table holds the modified
\* rendering with its first image and a later row of the same user and
\* subcategory with another image
C11_Witness ==
    /\ IsApp
    /\ last.op = "modify_rendering" /\ last.status = 200
    /\ \E r \in renderings, n \in renderings :
          /\ r.id = last.target /\ r.user_id = last.user
          /\ n.id > r.id /\ n.user_id = r.user_id
          /\ n.subcategory = r.subcategory
          /\ n.image_path # r.image_path /\ n.options_json # r.options_json

\* the rows a bulk_action request addresses: the requested ids within the
\* scope of the handler (the user in src/app.py, project and room in the
\* project-based revision)
RequestedInScope ==
    IF IsApp THEN Selected(last'.ids, session.user_id)
    ELSE InRoom(last'.target, last'.room_key, last'.ids)

\* a delete request with a selection, made by a user the handler admits
DeleteRequest ==
    /\ last'.op = "bulk_action" /\ last'.action = "delete"
    /\ last'.msg # "No renderings selected."
    /\ IsApp => LoggedIn

\* C12: a delete bulk action does not fail, whether or not the artifacts are
\* present or removable; it removes exactly the requested rows in scope
\* from the table, and the only artifacts it removes are theirs.
C12_DeleteBestEffort ==
    [][DeleteRequest =>
         /\ last'.status \in {200, 302}
         /\ renderings' = renderings \ RequestedInScope
         /\ files' \subseteq files
         /\ files \ files' \subseteq
              {IF IsApp THEN r.image_path ELSE r.image_filename : r \in RequestedInScope}
      ]_vars

\* a delete of the project-based revision ended with a server error and the
\* requested row with a stored artifact is still in the table
C12_Witness ==
    /\ IsProj
    /\ last.op = "bulk_action" /\ last.action = "delete" /\ last.status = 500
    /\ \E r \in renderings :
          /\ r.id \in last.ids /\ r.project_id = last.target
          /\ r.room_key = last.room_key
          /\ r.image_filename \in files

\* C13: the count in the response of a delete, like or favorite bulk action
\* of src/app.py is the number of rows in the user's scope that the call
\* deleted or updated.
C13_CountAffected ==
    [][(/\ IsApp /\ LoggedIn
        /\ last'.op = "bulk_action" /\ last'.status = 200
        /\ last'.action \in {"delete", "like", "favorite"}) =>
         /\ last'.n = Cardinality(Selected(last'.ids, session.user_id))
         /\ last'.n = Cardinality(renderings \ renderings')
      ]_vars

\* a like action answered with a count of 1 although the user owns no row
\* with the requested id, so that nothing was updated
C13_Witness ==
    /\ IsApp
    /\ last.op = "bulk_action" /\ last.action = "like" /\ last.status = 200
    /\ last.user # NoUser
    /\ last.n = 1
    /\ \A r \in renderings : ~(r.id \in last.ids /\ r.user_id = last.user)

\* the password check of login passes: a user with this email is stored and
\* the password matches its hash
PasswordCheckPasses(email_in, password) ==
    \E u \in users : /\ u.email = Lower(Strip(email_in))
                     /\ check_password_hash(u.password_hash, password)

\* register refuses the request: email or password missing, or the email is
\* already registered
RegistrationRejected(email_in, password) ==
    \/ Lower(Strip(email_in)) = <<>>
    \/ password = ""
    \/ \E u \in users : u.email = Lower(Strip(email_in))

SuccessfulLogin ==
    /\ last'.op = "login"
    /\ \E e \in AuthEmails, pw \in LoginPasswords :
          PasswordCheckPasses(e, pw) /\ login(e, pw)

FailedLogin ==
    /\ last'.op = "login"
    /\ \E e \in AuthEmails, pw \in LoginPasswords :
          ~PasswordCheckPasses(e, pw) /\ login(e, pw)

SuccessfulRegistration ==
    /\ last'.op = "register"
    /\ \E e \in AuthEmails, pw \in RegisterPasswords :
          ~RegistrationRejected(e, pw) /\ register(e, pw)

RejectedRegistration ==
    /\ last'.op = "register"
    /\ \E e \in AuthEmails, pw \in RegisterPasswords :
          RegistrationRejected(e, pw) /\ register(e, pw)

\* C14: in a session of src/app.py user_id goes from absent to present only
\* in a login whose password check passes or in a successful registration,
\* and each of them leaves the id of a stored user in the session; a failed
\* login and a rejected registration leave the session as it was; user_id
\* goes from present to absent only in logout, and logout leaves the
\* session empty.
C14_IdentityTransitions ==
    [][/\ (session.user_id = NoUser /\ session'.user_id # NoUser) =>
             (SuccessfulLogin \/ SuccessfulRegistration)
       /\ (SuccessfulLogin \/ SuccessfulRegistration) =>
             \E u \in users' : /\ session'.user_id = u.id
                               /\ session'.user_email = Some(u.email)
       /\ (FailedLogin \/ RejectedRegistration) => session' = session
       /\ (session.user_id # NoUser /\ session'.user_id = NoUser) => last'.op = "logout"
       /\ last'.op = "logout" => session' = NoSession
      ]_vars

\* two users have registered in this session, and a login with a wrong
\* password, made while one of them was logged in, left that identity in
\* the session
C14_Witness ==
    /\ IsApp
    /\ Cardinality(users) = 2
    /\ last.op = "login" /\ last.msg = "Invalid credentials."
    /\ last.user # NoUser
    /\ session.user_id = last.user
    /\ \E u \in users : u.id = session.user_id /\ session.user_email = Some(u.email)

\* a request of a logged-in user of src/app.py that lacks a required input:
\* generate_room without subcategory, bulk_action without ids, the email
\* action without recipient
MissingInput ==
    /\ IsApp /\ LoggedIn
    /\ \/ /\ last'.op = "generate_room"
          /\ \E d \in RoomDescriptions, pl \in PlanFlags, f \in Forms, genOk \in BOOLEAN :
                generate_room(Absent, d, pl, f, genOk)
       \/ /\ last'.op = "bulk_action"
          /\ \E a \in Actions : \E to \in (IF a = "email" THEN ToEmails ELSE {""}) :
                bulk_action(a, NoIds, to)
       \/ /\ last'.op = "bulk_action" /\ last'.action = "email"
          /\ \E idsIn \in IdInputs : bulk_action("email", idsIn, "")

\* C15: a request that lacks a required input is answered with a client
\* error that names the problem; the image generator is not called, no mail
\* is sent, and neither the renderings table nor the artifacts change.
C15_RejectedBeforeEffects ==
    [][MissingInput =>
         /\ last'.status = 400
         /\ last'.msg # ""
         /\ last'.gen = 0
         /\ last'.sent = {}
         /\ renderings' = renderings
         /\ files' = files
      ]_vars

\* generate_room without subcategory: the generator was called and its
\* image stored before the INSERT failed; no row refers to the image
C15_Witness ==
    /\ IsApp
    /\ last.op = "generate_room" /\ last.status = 500 /\ last.msg = "IntegrityError"
    /\ last.gen = 1
    /\ \E f \in files : \A r \in renderings : r.image_path # f

\* the subcategory of a stored row is a key of the catalog of its revision
\* (OPTIONS in src/app.py, ROOM_DEFS in the project-based revision)
RowInCatalog(r) ==
    IF IsApp THEN InOptions(Some(r.subcategory)) ELSE r.room_key \in ROOM_KEYS

\* a generation request that names a subcategory outside the catalog
UnknownSubcategoryRequest ==
    \/ /\ IsApp /\ LoggedIn /\ last'.op = "generate_room"
       /\ \E sc \in SubcategoryInputs :
             /\ sc.some /\ ~InOptions(sc)
             /\ \E d \in RoomDescriptions, pl \in PlanFlags, f \in Forms, genOk \in BOOLEAN :
                   generate_room(sc, d, pl, f, genOk)
    \/ /\ IsProj /\ last'.op = "generate_rendering"
       /\ \E pid \in ProjectInputs, k \in {"back_exterior", "garage"}, f \in Forms,
             imgOk \in BOOLEAN :
             k \notin ROOM_KEYS /\ generate_rendering(pid, k, f, imgOk)

\* C16: after every request the subcategory of every stored row is a key of
\* the catalog, and a generation request naming a subcategory outside the
\* catalog is refused without a generator call and without a new row.
C16_SubcategoryInCatalog ==
    [][/\ \A r \in renderings' : RowInCatalog(r)
       /\ UnknownSubcategoryRequest =>
             /\ last'.status \in {400, 404}
             /\ last'.gen = 0
             /\ renderings' = renderings
      ]_vars

\* src/app.py stored a ROOM rendering for the subcategory "Garage", which is
\* no key of OPTIONS
C16_Witness ==
    /\ IsApp
    /\ last.op = "generate_room" /\ last.status = 200
    /\ \E r \in renderings :
          /\ r.id = last.target /\ r.subcategory = Garage
          /\ ~InOptions(Some(r.subcategory))
          /\ r.image_path \in files

\* C17: between the requests of src/app.py the image_path of every stored
\* row names an artifact that is in the store.
C17_ArtifactsExist ==
    IsApp => \A r \in renderings : r.image_path \in files

\* after a delete whose unlink failed for the deleted row: the artifact is
\* still stored without a row, and the row that was not requested still has
\* its artifact
C17_Witness ==
    /\ IsApp
    /\ last.op = "bulk_action" /\ last.action = "delete" /\ last.status = 200
    /\ \E r \in renderings : r.image_path \in files
    /\ \E f \in files : \A r \in renderings : r.image_path # f

\* the values C18 names as the "none" sentinel: "none" and "no" in any
\* letter case
IsNoneSentinel(v) == Lower(v) \in {V_none, V_no}

\* C18: the prompt of build_prompt shows no option whose value is absent,
\* empty, or "none" or "no" in any letter case: for such an option the text
\* "Name: " does not occur in the prompt.
C18_SentinelsDropped ==
    bp.called =>
        \A i \in 1..Len(bp.options_map) :
            LET kv == bp.options_map[i] IN
            (~Truthy(kv[2]) \/ IsNoneSentinel(kv[2].val)) =>
                ~Contains(bp.prompt, kv[1] \o S_Colon)

\* build_prompt was called with Fireplace: No, and the prompt says
\* "Fireplace: No"
C18_Witness ==
    /\ bp.called
    /\ \E i \in 1..Len(bp.options_map) :
          bp.options_map[i] = <<K_Fireplace, Some(V_No)>>
    /\ Contains(bp.prompt, K_Fireplace \o S_Colon \o V_No)

\* the options C19 expects in the prompt: value present, non-empty and not
\* "None", in the order of the map, each as "Name: Value"
ExpectedPairs(options_map) ==
    LET Shown(kv) == kv[2].some /\ kv[2].val # <<>> /\ kv[2].val # S_None
        kept == SelectSeq(options_map, Shown)
    IN  [i \in 1..Len(kept) |-> kept[i][1] \o S_Colon \o kept[i][2].val]

\* the names of the options C19 expects to be left out
OmittedNames(options_map) ==
    {options_map[i][1] : i \in {j \in 1..Len(options_map) :
        ~options_map[j][2].some \/ options_map[j][2].val \in {<<>>, S_None}}}

\* the prompt shows exactly this text as the choices to apply
ShowsChoices(text) == Contains(bp.prompt, S_Apply \o text \o S_Tail)

\* C19 as stated: for every subcategory the choices shown in the prompt are
\* the pairs "Name: Value" of the options with a non-empty value other than
\* "None", in map order, joined by ", "; an omitted option does not occur.
C19_PairsInOrder ==
    bp.called =>
        LET joined == Join(ExpectedPairs(bp.options_map), S_Sep) IN
        /\ joined # <<>> => ShowsChoices(joined)
        /\ \A name \in OmittedNames(bp.options_map) :
              ~Contains(bp.prompt, name \o S_Colon)

\* C19, amended: that holds for every subcategory but "Front Exterior";
\* for "Front Exterior" the joined text is split at ", " and the pieces that
\* mention a pool in any letter case are left out of the choices shown.
C19_PairsInOrderExceptPool ==
    bp.called =>
        LET joined == Join(ExpectedPairs(bp.options_map), S_Sep)
            pieces == SelectSeq(Split(joined, S_Sep), NoPool)
            shown == IF bp.subcategory = Some(FrontExterior)
                     THEN Join(pieces, S_Sep) ELSE joined
        IN  /\ shown # <<>> => ShowsChoices(shown)
            /\ \A name \in OmittedNames(bp.options_map) :
                  ~Contains(bp.prompt, name \o S_Colon)
            /\ bp.subcategory = Some(FrontExterior) =>
                  \A i \in 1..Len(ExpectedPairs(bp.options_map)) :
                      LET pair == ExpectedPairs(bp.options_map)[i] IN
                      ~NoPool(pair) => ~Contains(bp.prompt, pair)

\* build_prompt was called for Kitchen with Countertops: Quartz and
\* Backsplash: None; the prompt shows "Countertops: Quartz" as the only
\* choice and does not mention the backsplash
C19_Witness ==
    /\ bp.called
    /\ bp.subcategory = Some(Kitchen)
    /\ bp.options_map = <<<<K_Countertops, Some(V_Quartz)>>, <<K_Backsplash, Some(S_None)>>>>
    /\ ShowsChoices(K_Countertops \o S_Colon \o V_Quartz)
    /\ ~Contains(bp.prompt, K_Backsplash)

\* the description is empty or consists of white space only
BlankDescription == \A i \in 1..Len(bp.description) : IsSpace(bp.description[i])

\* no option of the map is left to show: none has a non-empty value other
\* than "None", or the subcategory is "Front Exterior" and every piece of
\* every such pair mentions a pool
AllFilteredOut ==
    LET pairs == ExpectedPairs(bp.options_map) IN
    \/ pairs = <<>>
    \/ /\ bp.subcategory = Some(FrontExterior)
       /\ \A i \in 1..Len(pairs) :
             LET pieces == Split(pairs[i], S_Sep) IN
             \A j \in 1..Len(pieces) : ~NoPool(pieces[j])

\* C20: for every subcategory and plan flag, with an empty option map and an
\* empty or blank description the prompt has the design-intent fallback
\* followed by the selections fallback; and whenever no option is left to
\* show, also through the Front Exterior pool filter, the prompt has the
\* selections fallback as its choices.
C20_Fallbacks ==
    bp.called =>
        /\ (bp.options_map = <<>> /\ BlankDescription) =>
              Contains(bp.prompt, S_Intent \o S_IntentFallback \o S_Apply
                                  \o S_SelFallback \o S_Tail)
        /\ BlankDescription => Contains(bp.prompt, S_Intent \o S_IntentFallback \o S_Apply)
        /\ AllFilteredOut => ShowsChoices(S_SelFallback)

\* build_prompt was called for Front Exterior with a blank, non-empty
\* description and options that the "None" test and the pool filter remove;
\* the prompt has both fallback phrases
C20_Witness ==
    /\ bp.called
    /\ bp.subcategory = Some(FrontExterior)
    /\ bp.description # <<>> /\ BlankDescription
    /\ bp.options_map = <<<<K_Siding, Some(V_Pool)>>, <<K_Vehicle, Some(S_None)>>>>
    /\ Contains(bp.prompt, S_IntentFallback)
    /\ Contains(bp.prompt, S_SelFallback)

\* the newest exterior rendering of the session's user in src/app.py: its
\* prompt carries the description of the generate request that made it
LatestExterior ==
    {r \in Owned(session.user_id) :
        /\ r.category = "EXTERIOR"
        /\ \A x \in Owned(session.user_id) : x.category = "EXTERIOR" => x.id <= r.id}

\* the description of the generation the listing follows has "basement" in
\* some letter case
BasementRequested ==
    IF IsApp THEN \E r \in LatestExterior : Contains(Lower(r.prompt), S_basement)
    ELSE \E q \in projects :
            q.id = last'.target /\ Contains(Lower(q.description), S_basement)

\* a room list is shown after a successful generate: the gallery that
\* generate of src/app.py redirects to, the plan page of an existing project
RoomListShown ==
    \/ /\ IsApp /\ LoggedIn
       /\ last.op = "generate"
       /\ last.msg = "Generated Front & Back exterior renderings!"
       /\ last'.op = "gallery"
    \/ /\ IsProj /\ last'.op = "plan" /\ last'.status = 200

\* C21: the room list shown after a successful generate includes the four
\* basement rooms when the description has "basement" in any letter case,
\* and none of them otherwise.
C21_BasementRooms ==
    [][RoomListShown =>
         LET basement == IF IsApp THEN BASEMENT_ROOMS ELSE basement_rooms IN
         IF BasementRequested THEN basement \subseteq last'.rooms
         ELSE basement \cap last'.rooms = {}
      ]_vars

\* the gallery of src/app.py lists no basement room although the user's
\* exterior renderings were generated for a description with "Basement"
C21_Witness ==
    /\ IsApp
    /\ last.op = "gallery" /\ last.status = 200
    /\ last.rooms = BASIC_ROOMS
    /\ \E r \in renderings :
          /\ r.user_id = last.user /\ r.category = "EXTERIOR"
          /\ Contains(Lower(r.prompt), S_basement)

\* request r takes a step of register while its address is already stored
RegistersStoredEmail(r) ==
    /\ inflight[r].pc \in {"idle", "insert"}
    /\ inflight'[r].pc = "done"
    /\ \/ /\ inflight[r].pc = "insert"
          /\ \E u \in users : u.email = inflight[r].email
       \/ /\ inflight[r].pc = "idle"
          /\ inflight'[r].msg = "Email already registered."

\* C22: no two rows of users have the same email, also when register
\* requests for one address are interleaved; a register request whose
\* address is already stored adds no row and leaves its session without
\* user_id.
C22_UniqueEmails ==
    [][/\ \A u1 \in users', u2 \in users' : u1.email = u2.email => u1 = u2
       /\ \A r \in Requests :
             RegistersStoredEmail(r) =>
                 /\ users' = users
                 /\ inflight'[r].user_id = NoUser
      ]_vars

\* two requests of src/app.py for one address both passed the SELECT; one
\* has created the user, the INSERT of the other was refused
C22_Witness ==
    /\ IsApp
    /\ \E r1 \in Requests, r2 \in Requests :
          /\ inflight[r1].pc = "done" /\ inflight[r1].msg = "Welcome! Account created."
          /\ inflight[r2].pc = "done" /\ inflight[r2].msg = "IntegrityError"
          /\ inflight[r1].email = inflight[r2].email
          /\ inflight[r2].user_id = NoUser
          /\ Cardinality({u \in users : u.email = inflight[r1].email}) = 1

\* the artifact a rendering row refers to
PathOf(r) == IF IsApp THEN r.image_path ELSE r.image_filename

\* C23: no two rendering rows refer to the same image path or file name,
\* also when generation requests for one project and room are served
\* concurrently.
C23_UniquePaths ==
    \A r1 \in renderings, r2 \in renderings : PathOf(r1) = PathOf(r2) => r1 = r2

\* two requests for one project and room read the same clock value: both
\* rows are stored and name the same file
C23_Witness ==
    /\ IsProj
    /\ \E r1 \in renderings, r2 \in renderings :
          /\ r1.id # r2.id
          /\ r1.project_id = r2.project_id /\ r1.room_key = r2.room_key
          /\ r1.image_filename = r2.image_filename
          /\ r1.image_filename \in files

\* C24: in src/app.py every row a request inserts has liked = 0 and
\* favorited = 0, whatever the flags of a rendering it was modified from; a
\* like action leaves favorited of every row as it was and a favorite
\* action leaves liked of every row as it was.
C24_FlagsIndependent ==
    [][IsApp =>
         /\ \A n \in renderings' :
               n.id \notin {r.id : r \in renderings} => n.liked = 0 /\ n.favorited = 0
         /\ (last'.op = "bulk_action" /\ last'.action = "like") =>
               \A r \in renderings :
                  \E x \in renderings' : x.id = r.id /\ x.favorited = r.favorited
         /\ (last'.op = "bulk_action" /\ last'.action = "favorite") =>
               \A r \in renderings :
                  \E x \in renderings' : x.id = r.id /\ x.liked = r.liked
      ]_vars

\* a rendering that is liked and favorited was modified: the new row has
\* neither flag
C24_Witness ==
    /\ IsApp
    /\ last.op = "modify_rendering" /\ last.status = 200
    /\ \E r \in renderings, n \in renderings :
          /\ r.id = last.target /\ r.liked = 1 /\ r.favorited = 1
          /\ n.id > r.id /\ n.user_id = r.user_id
          /\ n.liked = 0 /\ n.favorited = 0

\* the columns of a rendering row of src/app.py other than liked and favorited
Immutable(r) ==
    <<r.user_id, r.category, r.subcategory, r.options_json, r.prompt,
      r.image_path, r.created_at>>

\* C25: in src/app.py a stored rendering row keeps its owner, category,
\* subcategory, options, prompt, image_path and created_at for as long as it
\* exists: a step either deletes the row or changes nothing of it but liked
\* and favorited.
C25_OnlyFlagsChange ==
    [][IsApp =>
         \A r \in renderings : \A x \in renderings' :
            x.id = r.id => Immutable(x) = Immutable(r)
      ]_vars

\* a row that was toggled and then modified from still exists, with its own
\* image, beside the row the modification inserted
C25_Witness ==
    /\ IsApp
    /\ last.op = "modify_rendering" /\ last.status = 200
    /\ \E r \in renderings, n \in renderings :
          /\ r.id = last.target
          /\ r.liked + r.favorited >= 1
          /\ n.id > r.id /\ n.category = r.category
          /\ n.image_path # r.image_path /\ r.image_path \in files

\* the rows the current session reaches through the bulk action of its
\* revision: src/app.py filters by the session's user_id behind
\* login_required, the project revision by project, room and id only
Reachable ==
    IF IsApp
    THEN (IF LoggedIn THEN Owned(session.user_id) ELSE {})
    ELSE {r \in renderings :
            \E project_id \in ProjectInputs, room_key \in BulkRoomKeys, x \in IdInputs :
               r \in InRoom(project_id, room_key, x.ids)}

\* the session is anonymous, its last request generated an exterior pair and
\* no other rendering was ever made without a login
GuestGenerated ==
    /\ session.user_id = NoUser
    /\ last.op = "generate" /\ last.user = NoUser
    /\ last.status \in {200, 302} /\ last.gen = 2
    /\ Owned(NoUser) = {r \in renderings : r.id \in {nextId - 2, nextId - 1}}
    /\ Cardinality(Owned(NoUser)) = 2

\* C26: right after an anonymous session generated an exterior pair, the
\* renderings that session can act on are the two new rows and no others.
C26_GuestIsolation ==
    GuestGenerated =>
        /\ Reachable \subseteq {r \in renderings : r.id \in {nextId - 2, nextId - 1}}
        /\ \A r \in Reachable : r.user_id = NoUser

\* an anonymous session generated an exterior pair while renderings of a
\* registered user are stored
C26_Witness ==
    /\ GuestGenerated
    /\ \E r \in renderings : r.user_id # NoUser /\ r.id < nextId - 2

\* the value of the column a like or favorite action works on
Flag(r, action) == IF action = "like" THEN r.liked ELSE r.favorited

\* a like or favorite step of src/app.py that reached the UPDATE
ToggleStep ==
    /\ IsApp /\ LoggedIn
    /\ last'.op = "bulk_action" /\ last'.action \in {"like", "favorite"}
    /\ last'.status = 200

\* C27: in src/app.py a like or favorite action flips the flag of each
\* requested rendering in scope on its own: the same action on the same ids
\* applied to the resulting table gives back the table as it was before, and
\* a selection holding both values before the action holds both after it.
C27_ToggleInvolution ==
    [][ToggleStep =>
         LET field == IF last'.action = "like" THEN "liked" ELSE "favorited"
             before == Selected(last'.ids, session.user_id)
             after == {x \in renderings' : \E r \in before : x.id = r.id}
         IN  /\ \A f \in {"liked", "favorited"}, ids \in SUBSET Ids, uid \in 1..nextUserId :
                   (f = field /\ ids = last'.ids /\ uid = session.user_id) =>
                      ToggleRows(f, ids, uid)' = renderings
             /\ \A r \in before : \E x \in after :
                   x.id = r.id /\ Flag(x, last'.action) = 1 - Flag(r, last'.action)
             /\ ({Flag(r, last'.action) : r \in before} = {0, 1}) =>
                   ({Flag(x, last'.action) : x \in after} = {0, 1})
      ]_vars

\* right after a like or favorite action on two renderings of the user, one
\* of them has the flag and the other has not
C27_Witness ==
    /\ IsApp
    /\ last.op = "bulk_action" /\ last.action \in {"like", "favorite"}
    /\ last.status = 200
    /\ \E a \in Selected(last.ids, last.user), b \in Selected(last.ids, last.user) :
          Flag(a, last.action) = 1 /\ Flag(b, last.action) = 0

\* two requests of one user with the same action that both read rendering i
\* and have both been answered
SameToggleDone(a, b, i) ==
    /\ a # b
    /\ inflight[a].pc = "done" /\ inflight[b].pc = "done"
    /\ inflight[a].status = 200 /\ inflight[b].status = 200
    /\ inflight[a].user_id = inflight[b].user_id
    /\ inflight[a].action = inflight[b].action
    /\ \E v \in {0, 1} : <<i, v>> \in inflight[a].rows
    /\ \E v \in {0, 1} : <<i, v>> \in inflight[b].rows

\* the value request r read for rendering i
ReadBy(r, i) == (CHOOSE row \in inflight[r].rows : row[1] = i)[2]

\* C28 as stated: after two like (or two favorite) requests of one user on
\* the same rendering have run, at the same time or not, the flag has the
\* value of a serial execution: one request read what the other had written,
\* and the flag is back at the value the first of them read.
C28_SerialOutcome ==
    \A a \in Requests, b \in Requests, i \in Ids :
       SameToggleDone(a, b, i) =>
          \A x \in renderings :
             x.id = i =>
                /\ ReadBy(a, i) # ReadBy(b, i)
                /\ \E w \in {a, b} : Flag(x, inflight[a].action) = ReadBy(w, i)

\* C28, amended: the flag holds what the request whose UPDATE ran last wrote,
\* 1 - the value that request had read; when both requests read before
\* either wrote, that is the original value toggled once.
C28_LastWriteWins ==
    \A i \in Ids, action \in {"like", "favorite"} :
       LET writers == {w \in Requests :
                         /\ inflight[w].pc = "done" /\ inflight[w].status = 200
                         /\ inflight[w].action = action
                         /\ \E v \in {0, 1} : <<i, v>> \in inflight[w].rows}
       IN  writers # {} =>
              \A x \in renderings :
                 x.id = i => \E w \in writers : Flag(x, action) = 1 - ReadBy(w, i)

\* two requests of one user with the same action read the same value of a
\* rendering, both wrote, and the flag is that value toggled once
C28_Witness ==
    \E a \in Requests, b \in Requests, i \in Ids :
       /\ SameToggleDone(a, b, i)
       /\ ReadBy(a, i) = ReadBy(b, i)
       /\ \E x \in renderings :
             x.id = i /\ Flag(x, inflight[a].action) = 1 - ReadBy(a, i)

\* C29: in src/app.py every artifact a request writes to the renderings
\* store is the image_path of exactly one row when the request has been
\* answered, also when the request failed after the artifact was written.
C29_NoOrphanArtifacts ==
    [][IsApp =>
         \A f \in files' \ files :
            Cardinality({r \in renderings' : r.image_path = f}) = 1
      ]_vars

\* generate failed at the Back Exterior image: the Front Exterior image is in
\* the store and no row refers to it
C29_Witness ==
    /\ IsApp
    /\ last.op = "generate" /\ last.gen = 2
    /\ last.msg = "OpenAI image generation failed"
    /\ \E f \in files : \A r \in renderings : r.image_path # f

\* what each flag of app.config stands for on the disk
FlagsTrueOnlyWhenMade ==
    /\ config.DB_INITIALIZED => config.tables = Tables
    /\ config.FS_INITIALIZED => (config.dirs /\ config.scaffold # "missing")

\* a request is in its route handler, or past it, only with both flags set
BodyAfterInit ==
    \A r \in Requests :
       inflight[r].pc \in {"body", "done"} =>
          (config.FS_INITIALIZED /\ config.DB_INITIALIZED /\ FlagsTrueOnlyWhenMade)

\* a step of init_db_once or init_fs_once made by request r
InitStep(r) ==
    \/ fs_mkdir(r) \/ fs_write_begin(r) \/ fs_write_end(r) \/ fs_flag(r)
    \/ db_create(r, "users") \/ db_create(r, "renderings") \/ db_flag(r)

\* C30: under every interleaving of the first requests to src/app.py,
\* DB_INITIALIZED is true only when both tables exist and FS_INITIALIZED only
\* when the directories and scaffolded files exist, a flag that is true stays
\* true, a request reaches its route handler only with both flags true, and a
\* step of initialization keeps every table that exists and every row in it.
C30_InitOnce ==
    /\ [](FlagsTrueOnlyWhenMade /\ BodyAfterInit)
    /\ [][/\ config.DB_INITIALIZED => config'.DB_INITIALIZED
          /\ config.FS_INITIALIZED => config'.FS_INITIALIZED
          /\ (\E r \in Requests : InitStep(r)) =>
                /\ config.tables \subseteq config'.tables
                /\ users' = users /\ renderings' = renderings
                /\ (config.dirs => config'.dirs)
                /\ (config.scaffold # "missing" => config'.scaffold # "missing")
       ]_vars

\* initialization ran a second time: a request is about to set DB_INITIALIZED
\* after its own CREATE TABLE statements while the flag is already true and
\* the users table holds rows
C30_Witness ==
    /\ config.DB_INITIALIZED /\ config.FS_INITIALIZED
    /\ users # {}
    /\ \E r \in Requests : inflight[r].pc = "db_flag"
    /\ \E o \in Requests : inflight[o].pc \in {"body", "done"}

====
